---- MODULE Spec2Model ----
(***************************************************************************)
(* Dream-Canvas-Art: the image-generation route, its media validation and  *)
(* model dispatch, and the error classifier of app/core/error_handlers.py. *)
(*                                                                         *)
(* Python strings are TLA+ strings; an exception is modelled by str(e).    *)
(* One HTTP request is served at a time: its handler runs as one action,   *)
(* then the response is sent (Send) and the server is idle again.          *)
(***************************************************************************)
EXTENDS Integers, Sequences, FiniteSets, TLC

VARIABLES
  pc,        \* "idle" | "done": waiting for a request, or response ready
  request,   \* the request (or raised fault) being served, None when idle
  response,  \* what the handler returned or raised, None until it ran
  calls,     \* provider calls submitted while serving the request
  uploads,   \* uploads to storage made while serving the request
  sent,      \* the HTTP response that goes out: status code and JSON body
  bucket,    \* MediaUploader.bucket: TRUE when the blob-store client exists
  store,     \* the blob store: blob name ("bucket/path") -> what is stored
  inflight   \* image requests being served side by side, by request number

vars == <<pc, request, response, calls, uploads, sent, bucket, store, inflight>>

\* Python's None, written the way an f-string formats it
None == "None"

(***************************************************************************)
(* String helpers                                                          *)
(***************************************************************************)

\* p in s
Contains(s, p) ==
  \E i \in 1..(Len(s) - Len(p) + 1) : SubSeq(s, i, i + Len(p) - 1) = p

UpperToLower ==
  ("A" :> "a") @@ ("B" :> "b") @@ ("C" :> "c") @@ ("D" :> "d") @@ ("E" :> "e") @@
  ("F" :> "f") @@ ("G" :> "g") @@ ("H" :> "h") @@ ("I" :> "i") @@ ("J" :> "j") @@
  ("K" :> "k") @@ ("L" :> "l") @@ ("M" :> "m") @@ ("N" :> "n") @@ ("O" :> "o") @@
  ("P" :> "p") @@ ("Q" :> "q") @@ ("R" :> "r") @@ ("S" :> "s") @@ ("T" :> "t") @@
  ("U" :> "u") @@ ("V" :> "v") @@ ("W" :> "w") @@ ("X" :> "x") @@ ("Y" :> "y") @@
  ("Z" :> "z")

RECURSIVE Lower(_)
\* str.lower()
Lower(s) ==
  IF Len(s) = 0 THEN ""
  ELSE LET c == SubSeq(s, 1, 1)
       IN (IF c \in DOMAIN UpperToLower THEN UpperToLower[c] ELSE c)
            \o Lower(SubSeq(s, 2, Len(s)))

RECURSIVE Strip(_)
\* str.strip(), for the blanks the inputs contain
Strip(s) ==
  IF Len(s) = 0 THEN ""
  ELSE IF SubSeq(s, 1, 1) = " " THEN Strip(SubSeq(s, 2, Len(s)))
  ELSE IF SubSeq(s, Len(s), Len(s)) = " " THEN Strip(SubSeq(s, 1, Len(s) - 1))
  ELSE s

\* any(p in s for p in patterns)
AnyIn(patterns, s) == \E k \in 1..Len(patterns) : Contains(s, patterns[k])

\* s[:n]
Truncate(s, n) == IF Len(s) <= n THEN s ELSE SubSeq(s, 1, n)

(***************************************************************************)
(* app/core/error_handlers.py: the error classifier                        *)
(***************************************************************************)

\* HTTPException(status_code, detail)
HTTPException(status_code, detail) ==
  [status_code |-> status_code, detail |-> detail]

\* Mutant of create_error_response: the details are dropped
create_error_response_NoDetails(status_code, error_type, message, details) ==
  HTTPException(status_code,
    [error |-> error_type, message |-> message, status_code |-> status_code])

\* create_error_response: every caller passes details and none passes
\* field, so the detail always has exactly these four keys.
create_error_response(status_code, error_type, message, details) ==
  HTTPException(status_code,
    [error |-> error_type, message |-> message,
     status_code |-> status_code, details |-> details])

\* The if-chain of handle_fal_ai_error, in source order: the patterns each
\* branch tests and the constant parts of what it returns.
FalBranches ==
  <<
    \* line 286
    [patterns |-> << "rate limit", "429", "quota exceeded", "too many requests", "rate exceeded", "throttled", "quota" >>,
     status |-> 429, error |-> "Rate Limit Error", error_type |-> "rate_limit",
     message |-> "API rate limit exceeded. You've made too many requests in a short time period.",
     resolution |-> "Wait a few minutes before making another request. Consider upgrading your service plan for higher limits."],
    \* line 303
    [patterns |-> << "api key", "unauthorized", "401", "authentication failed", "invalid api key", "missing api key", "fal_key" >>,
     status |-> 401, error |-> "Authentication Error", error_type |-> "authentication",
     message |-> "API authentication failed. Please check that your API key is correctly configured in the environment.",
     resolution |-> "Verify that your API key environment variable is set with a valid API key"],
    \* line 320
    [patterns |-> << "face_detection_error", "could not detect face", "no face detected", "face detection failed", "face not found" >>,
     status |-> 422, error |-> "Face Detection Error", error_type |-> "face_detection_error",
     message |-> "Could not detect a face in the provided image. Face detection is required for this operation.",
     resolution |-> "Ensure the image contains a clear, visible face and try again with a different image."],
    \* line 337
    [patterns |-> << "safety", "content policy", "inappropriate", "nsfw", "violation", "safety checker", "moderation", "blocked", "filtered", "content_policy_violation" >>,
     status |-> 422, error |-> "Content Policy Violation", error_type |-> "content_policy_violation",
     message |-> "Your request was blocked by the service's safety filters. The prompt may contain inappropriate content.",
     resolution |-> "Modify your prompt to remove potentially inappropriate, violent, or explicit content and try again."],
    \* line 354
    [patterns |-> << "image_too_small", "image too small", "minimum size", "min_height", "min_width" >>,
     status |-> 422, error |-> "Image Too Small", error_type |-> "image_too_small",
     message |-> "The provided image dimensions are smaller than the required minimum size.",
     resolution |-> "Use an image with larger dimensions that meets the minimum size requirements."],
    \* line 369
    [patterns |-> << "image_too_large", "image too large", "maximum size", "max_height", "max_width", "image dimensions exceed" >>,
     status |-> 422, error |-> "Image Too Large", error_type |-> "image_too_large",
     message |-> "The provided image dimensions exceed the maximum allowed limits.",
     resolution |-> "Resize your image to smaller dimensions that meet the maximum size requirements."],
    \* line 385
    [patterns |-> << "unsupported_image_format", "unsupported image format", "invalid image format", "image format not supported" >>,
     status |-> 422, error |-> "Unsupported Image Format", error_type |-> "unsupported_image_format",
     message |-> "The image file format is not supported. Use a supported format like JPEG, PNG, or WebP.",
     resolution |-> "Convert your image to a supported format (JPEG, PNG, WebP) and try again."],
    \* line 401
    [patterns |-> << "unsupported_audio_format", "unsupported audio format", "invalid audio format", "audio format not supported" >>,
     status |-> 422, error |-> "Unsupported Audio Format", error_type |-> "unsupported_audio_format",
     message |-> "The audio file format is not supported. Use a supported format like MP3, WAV, or OGG.",
     resolution |-> "Convert your audio file to a supported format (MP3, WAV, OGG) and try again."],
    \* line 417
    [patterns |-> << "unsupported_video_format", "unsupported video format", "invalid video format", "video format not supported" >>,
     status |-> 422, error |-> "Unsupported Video Format", error_type |-> "unsupported_video_format",
     message |-> "The video file format is not supported. Use a supported format like MP4, MOV, or WebM.",
     resolution |-> "Convert your video file to a supported format (MP4, MOV, WebM) and try again."],
    \* line 434
    [patterns |-> << "404", "not found", "model not found", "endpoint not found", "invalid model", "model does not exist" >>,
     status |-> 404, error |-> "Model Not Found", error_type |-> "model_not_found",
     message |-> "The specified AI model or endpoint was not found. The model may have been updated or deprecated.",
     resolution |-> "Check the API documentation for the correct model endpoint name and update your code."],
    \* line 451
    [patterns |-> << "file_too_large", "file too large", "file size", "exceeds maximum", "max_size" >>,
     status |-> 422, error |-> "File Too Large", error_type |-> "file_too_large",
     message |-> "The uploaded file exceeds the maximum allowed size limit.",
     resolution |-> "Reduce the file size or use a smaller file that meets the size requirements."],
    \* line 466
    [patterns |-> << "invalid_archive", "invalid archive", "corrupted archive", "cannot read archive", "archive format", "unsupported archive" >>,
     status |-> 422, error |-> "Invalid Archive", error_type |-> "invalid_archive",
     message |-> "The provided archive file cannot be read or processed. It may be corrupted or in an unsupported format.",
     resolution |-> "Ensure the archive is a valid ZIP or TAR.GZ file and not corrupted."],
    \* line 482
    [patterns |-> << "archive_file_count_below_minimum", "too few files", "minimum files", "min_count" >>,
     status |-> 422, error |-> "Archive Has Too Few Files", error_type |-> "archive_file_count_below_minimum",
     message |-> "The provided archive contains fewer files than the minimum required count.",
     resolution |-> "Add more files to your archive to meet the minimum file count requirement."],
    \* line 497
    [patterns |-> << "archive_file_count_exceeds_maximum", "too many files", "maximum files", "max_count" >>,
     status |-> 422, error |-> "Archive Has Too Many Files", error_type |-> "archive_file_count_exceeds_maximum",
     message |-> "The provided archive contains more files than the maximum allowed count.",
     resolution |-> "Remove some files from your archive to meet the maximum file count limit."],
    \* line 513
    [patterns |-> << "audio_duration_too_long", "audio duration too long", "audio too long", "max_duration" >>,
     status |-> 422, error |-> "Audio Duration Too Long", error_type |-> "audio_duration_too_long",
     message |-> "The provided audio file exceeds the maximum allowed duration.",
     resolution |-> "Trim your audio file to meet the maximum duration requirement."],
    \* line 528
    [patterns |-> << "audio_duration_too_short", "audio duration too short", "audio too short", "min_duration" >>,
     status |-> 422, error |-> "Audio Duration Too Short", error_type |-> "audio_duration_too_short",
     message |-> "The provided audio file is shorter than the minimum required duration.",
     resolution |-> "Use a longer audio file that meets the minimum duration requirement."],
    \* line 543
    [patterns |-> << "video_duration_too_long", "video duration too long", "video too long" >>,
     status |-> 422, error |-> "Video Duration Too Long", error_type |-> "video_duration_too_long",
     message |-> "The provided video file exceeds the maximum allowed duration.",
     resolution |-> "Trim your video file to meet the maximum duration requirement."],
    \* line 558
    [patterns |-> << "video_duration_too_short", "video duration too short", "video too short" >>,
     status |-> 422, error |-> "Video Duration Too Short", error_type |-> "video_duration_too_short",
     message |-> "The provided video file is shorter than the minimum required duration.",
     resolution |-> "Use a longer video file that meets the minimum duration requirement."],
    \* line 574
    [patterns |-> << "greater_than", "should be greater than", "must be greater than", "gt" >>,
     status |-> 422, error |-> "Value Too Small", error_type |-> "greater_than",
     message |-> "The provided numeric value is not greater than the required minimum.",
     resolution |-> "Use a larger value that meets the minimum requirement."],
    \* line 589
    [patterns |-> << "greater_than_equal", "should be greater than or equal", "must be greater than or equal", "ge" >>,
     status |-> 422, error |-> "Value Too Small", error_type |-> "greater_than_equal",
     message |-> "The provided numeric value is less than the required minimum.",
     resolution |-> "Use a value greater than or equal to the minimum requirement."],
    \* line 604
    [patterns |-> << "less_than", "should be less than", "must be less than", "lt" >>,
     status |-> 422, error |-> "Value Too Large", error_type |-> "less_than",
     message |-> "The provided numeric value is not less than the required maximum.",
     resolution |-> "Use a smaller value that meets the maximum requirement."],
    \* line 619
    [patterns |-> << "less_than_equal", "should be less than or equal", "must be less than or equal", "le" >>,
     status |-> 422, error |-> "Value Too Large", error_type |-> "less_than_equal",
     message |-> "The provided numeric value is greater than the required maximum.",
     resolution |-> "Use a value less than or equal to the maximum requirement."],
    \* line 634
    [patterns |-> << "multiple_of", "should be a multiple of", "must be a multiple of", "multiple" >>,
     status |-> 422, error |-> "Invalid Multiple", error_type |-> "multiple_of",
     message |-> "The provided numeric value is not a multiple of the required factor.",
     resolution |-> "Use a value that is a multiple of the required factor."],
    \* line 650
    [patterns |-> << "sequence_too_short", "sequence too short", "should have at least", "min_length" >>,
     status |-> 422, error |-> "Sequence Too Short", error_type |-> "sequence_too_short",
     message |-> "The provided sequence has fewer items than the required minimum length.",
     resolution |-> "Add more items to meet the minimum length requirement."],
    \* line 665
    [patterns |-> << "sequence_too_long", "sequence too long", "should have at most", "max_length" >>,
     status |-> 422, error |-> "Sequence Too Long", error_type |-> "sequence_too_long",
     message |-> "The provided sequence has more items than the maximum allowed length.",
     resolution |-> "Remove some items to meet the maximum length limit."],
    \* line 681
    [patterns |-> << "one_of", "should be", "invalid choice", "not in allowed values", "expected" >>,
     status |-> 422, error |-> "Invalid Choice", error_type |-> "one_of",
     message |-> "The provided value is not among the set of allowed values.",
     resolution |-> "Use one of the allowed values specified in the API documentation."],
    \* line 697
    [patterns |-> << "generation_timeout", "generation timeout", "request timeout", "operation timed out" >>,
     status |-> 504, error |-> "Generation Timeout", error_type |-> "generation_timeout",
     message |-> "The generation request took longer than the allowed time limit to complete.",
     resolution |-> "Try again with simpler parameters or retry later when the service is less busy."],
    \* line 712
    [patterns |-> << "downstream_service_error", "downstream service error", "external service error" >>,
     status |-> 400, error |-> "Downstream Service Error", error_type |-> "downstream_service_error",
     message |-> "There was a problem communicating with an external service required to fulfill the request.",
     resolution |-> "This is usually a temporary issue. Try again in a few minutes."],
    \* line 727
    [patterns |-> << "downstream_service_unavailable", "downstream service unavailable", "external service unavailable" >>,
     status |-> 500, error |-> "Downstream Service Unavailable", error_type |-> "downstream_service_unavailable",
     message |-> "A required third-party service is currently unavailable, preventing the request from being fulfilled.",
     resolution |-> "Wait a few minutes and try again. The external service should be back online shortly."],
    \* line 742
    [patterns |-> << "feature_not_supported", "feature not supported", "not supported", "unsupported feature" >>,
     status |-> 422, error |-> "Feature Not Supported", error_type |-> "feature_not_supported",
     message |-> "The combination of input parameters requests a feature that is not supported by this endpoint.",
     resolution |-> "Check the API documentation for supported features and adjust your parameters."],
    \* line 758
    [patterns |-> << "image_load_error", "image load error", "failed to load image", "corrupted image" >>,
     status |-> 422, error |-> "Image Load Error", error_type |-> "image_load_error",
     message |-> "Failed to load or process the provided image. The image may be corrupted or in an unsupported format.",
     resolution |-> "Verify the image file is not corrupted and is in a supported format."],
    \* line 773
    [patterns |-> << "file_download_error", "file download error", "failed to download", "download failed" >>,
     status |-> 422, error |-> "File Download Error", error_type |-> "file_download_error",
     message |-> "Failed to download the file from the provided URL. Ensure the URL is publicly accessible.",
     resolution |-> "Check that the URL is correct, publicly accessible, and not behind authentication."],
    \* line 789
    [patterns |-> << "503", "502", "500", "service unavailable", "server error", "model unavailable", "temporarily unavailable", "maintenance" >>,
     status |-> 503, error |-> "Service Unavailable", error_type |-> "service_unavailable",
     message |-> "AI service is temporarily unavailable. This may be due to high demand or maintenance.",
     resolution |-> "Wait a few minutes and try again. Check the service status page for any ongoing issues."],
    \* line 806
    [patterns |-> << "timeout", "504", "gateway timeout", "request timeout", "time out", "timed out", "deadline exceeded" >>,
     status |-> 504, error |-> "Request Timeout", error_type |-> "timeout",
     message |-> "The request to the AI service timed out. Complex prompts or high-resolution images may take longer to process.",
     resolution |-> "Try simplifying your prompt, reducing image size, or trying again later when the service is less busy."],
    \* line 823 (details also carry original_error)
    [patterns |-> << "400", "bad request", "invalid", "parameter", "argument", "validation error", "invalid input", "malformed", "parse error" >>,
     status |-> 400, error |-> "Invalid Request", error_type |-> "invalid_parameters",
     message |-> "Invalid parameters sent to the AI service.",
     resolution |-> "Check the API documentation for valid parameter values and formats."],
    \* line 852
    [patterns |-> << "upload", "file", "image too large", "file size", "format not supported", "invalid file", "corrupted", "unsupported format" >>,
     status |-> 400, error |-> "File Upload Error", error_type |-> "file_upload_error",
     message |-> "There was an issue with the uploaded file. Check file format, size, and integrity.",
     resolution |-> "Ensure files are in supported formats (JPEG, PNG, WebP), under size limits, and not corrupted."],
    \* line 869
    [patterns |-> << "connection", "network", "dns", "unreachable", "connection refused", "connection error", "network error", "ssl error" >>,
     status |-> 503, error |-> "Network Error", error_type |-> "network_error",
     message |-> "Unable to connect to AI services. Check your internet connection.",
     resolution |-> "Check your internet connection and firewall settings. The issue may be temporary."],
    \* line 886
    [patterns |-> << "no images", "empty result", "no output", "failed to generate", "generation failed", "no content generated" >>,
     status |-> 500, error |-> "Generation Failed", error_type |-> "generation_failed",
     message |-> "AI service failed to generate any output. This may be due to prompt complexity or temporary service issues.",
     resolution |-> "Try simplifying your prompt, adjusting parameters, or trying again in a few minutes."],
    \* line 903
    [patterns |-> << "payment", "billing", "insufficient", "credits", "balance", "subscription", "plan", "payment required" >>,
     status |-> 402, error |-> "Payment Required", error_type |-> "payment_required",
     message |-> "Your AI service account has insufficient credits or an inactive subscription.",
     resolution |-> "Check your account balance and add credits or upgrade your subscription plan."]
  >>

\* The length original_error is cut to in the generic branch
OriginalErrorLimit == 200

\* param_hint of the invalid-parameters branch
ParamHint(error_msg) ==
  IF Contains(error_msg, "image_size")
  THEN " Check that image_size is valid (e.g., 'square_hd', 'portrait_4_3', 'landscape_4_3')."
  ELSE IF Contains(error_msg, "prompt")
  THEN " Ensure your prompt is not empty and contains valid text."
  ELSE IF Contains(error_msg, "num_inference_steps")
  THEN " Check that num_inference_steps is within the valid range (typically 1-50)."
  ELSE IF Contains(error_msg, "guidance_scale")
  THEN " Ensure guidance_scale is a positive number (typically 1.0-20.0)."
  ELSE ""

\* What branch b of handle_fal_ai_error returns
FalOutcome(b, e, error_msg, operation) ==
  IF b.error_type = "invalid_parameters"
  THEN create_error_response(b.status, b.error,
         b.message \o ParamHint(error_msg),
         [service |-> "AI Service", operation |-> operation,
          error_type |-> b.error_type, resolution |-> b.resolution,
          original_error |-> e])
  ELSE create_error_response(b.status, b.error, b.message,
         [service |-> "AI Service", operation |-> operation,
          error_type |-> b.error_type, resolution |-> b.resolution])

\* The final return of handle_fal_ai_error
FalGeneric(e, operation) ==
  create_error_response(500, "AI Service Error",
    "An unexpected error occurred with AI service during " \o operation
      \o ". This may be a temporary service issue.",
    [service |-> "AI Service", operation |-> operation,
     error_type |-> "generic",
     resolution |-> "Try again in a few minutes. If the problem persists, contact support.",
     original_error |-> Truncate(e, OriginalErrorLimit)])

RECURSIVE FalFromLastWins(_, _, _, _)
\* Mutant of FalFrom: a later matching branch overrides an earlier one
FalFromLastWins(i, e, error_msg, operation) ==
  IF i > Len(FalBranches) THEN FalGeneric(e, operation)
  ELSE IF AnyIn(FalBranches[i].patterns, error_msg)
            /\ \A j \in (i + 1)..Len(FalBranches) :
                  ~AnyIn(FalBranches[j].patterns, error_msg)
       THEN FalOutcome(FalBranches[i], e, error_msg, operation)
       ELSE FalFromLastWins(i + 1, e, error_msg, operation)

RECURSIVE FalFrom(_, _, _, _)
\* The if statements of handle_fal_ai_error from the i-th on
FalFrom(i, e, error_msg, operation) ==
  IF i > Len(FalBranches) THEN FalGeneric(e, operation)
  ELSE IF AnyIn(FalBranches[i].patterns, error_msg)
       THEN FalOutcome(FalBranches[i], e, error_msg, operation)
       ELSE FalFrom(i + 1, e, error_msg, operation)

\* Mutant of handle_fal_ai_error: video faults skip the pattern list
handle_fal_ai_error_ByOperation(e, operation) ==
  IF operation = "video generation" THEN FalGeneric(e, operation)
  ELSE FalFrom(1, e, Lower(e), operation)

\* handle_fal_ai_error: the first branch whose pattern the message contains
handle_fal_ai_error(e, operation) == FalFrom(1, e, Lower(e), operation)

handle_openai_error(e, operation) ==
  LET error_msg == Lower(e)
      details == [service |-> "OpenAI", operation |-> operation]
  IN IF Contains(error_msg, "api key") \/ Contains(error_msg, "unauthorized")
     THEN create_error_response(401, "Authentication Error",
            "OpenAI authentication failed. Please check the service configuration.",
            details)
     ELSE IF Contains(error_msg, "rate limit") \/ Contains(error_msg, "quota")
     THEN create_error_response(429, "Rate Limit Error",
            "OpenAI rate limit exceeded. Please wait a moment before trying again.",
            details)
     ELSE IF Contains(error_msg, "content policy") \/ Contains(error_msg, "safety")
     THEN create_error_response(400, "Content Policy Violation",
            "Your request was rejected due to content policy restrictions. Please modify your prompt and try again.",
            details)
     ELSE create_error_response(500, "AI Service Error",
            "An error occurred with OpenAI during " \o operation
              \o ". Please try again later.",
            details)

handle_google_ai_error(e, operation) ==
  LET error_msg == Lower(e)
      details == [service |-> "Google AI", operation |-> operation]
  IN IF Contains(error_msg, "api key") \/ Contains(error_msg, "unauthorized")
     THEN create_error_response(401, "Authentication Error",
            "Google AI authentication failed. Please check the service configuration.",
            details)
     ELSE IF Contains(error_msg, "quota") \/ Contains(error_msg, "rate limit")
     THEN create_error_response(429, "Rate Limit Error",
            "Google AI rate limit exceeded. Please wait a moment before trying again.",
            details)
     ELSE IF Contains(error_msg, "safety") \/ Contains(error_msg, "content policy")
     THEN create_error_response(400, "Content Policy Violation",
            "Your request was rejected due to content policy restrictions. Please modify your prompt and try again.",
            details)
     ELSE create_error_response(500, "AI Service Error",
            "An error occurred with Google AI during " \o operation
              \o ". Please try again later.",
            details)

handle_storage_error(e, operation) ==
  LET error_msg == Lower(e)
      details == [service |-> "Storage", operation |-> operation]
  IN IF Contains(error_msg, "permission") \/ Contains(error_msg, "access denied")
     THEN create_error_response(403, "Storage Permission Error",
            "Unable to save the generated content due to storage permissions.",
            details)
     ELSE IF Contains(error_msg, "quota")
               \/ (Contains(error_msg, "storage") /\ Contains(error_msg, "full"))
     THEN create_error_response(507, "Storage Full",
            "Storage quota exceeded. Please contact support.",
            details)
     ELSE create_error_response(500, "Storage Error",
            "Unable to save the generated content. The content was generated successfully but couldn't be stored.",
            details)

\* Mutant of GenericServiceError: the fallback reports 503
GenericServiceError_Unavailable(service_name, operation) ==
  create_error_response(503, "Service Error",
    "An error occurred during " \o operation \o ". Please try again later.",
    [service |-> service_name, operation |-> operation])

\* The else branch of handle_service_error: the generic service error
GenericServiceError(service_name, operation) ==
  create_error_response(500, "Service Error",
    "An error occurred during " \o operation \o ". Please try again later.",
    [service |-> service_name, operation |-> operation])

\* The test that sends a fault to handle_fal_ai_error
IsFalError(error_msg, service_name) ==
  \/ AnyIn(<<"fal", "flux", "kontext">>, Lower(service_name))
  \/ AnyIn(<<"fal.ai", "fal_client", "fal-ai">>, error_msg)

handle_service_error(e, service_name, operation) ==
  LET error_msg == Lower(e)
      details == [service |-> service_name, operation |-> operation]
  IN IF IsFalError(error_msg, service_name)
     THEN handle_fal_ai_error(e, operation)
     ELSE IF Contains(error_msg, "openai") \/ Contains(error_msg, "gpt")
               \/ Contains(error_msg, "dalle")
     THEN handle_openai_error(e, operation)
     ELSE IF Contains(error_msg, "gemini") \/ Contains(error_msg, "google")
               \/ Contains(error_msg, "imagen")
     THEN handle_google_ai_error(e, operation)
     ELSE IF Contains(error_msg, "storage") \/ Contains(error_msg, "gcs")
               \/ Contains(error_msg, "bucket")
     THEN handle_storage_error(e, operation)
     ELSE IF AnyIn(<<"connection", "timeout", "network", "unreachable">>, error_msg)
     THEN create_error_response(503, "Network Error",
            "Network connection failed during " \o operation
              \o ". Please check your internet connection and try again.",
            [service |-> service_name, operation |-> operation,
             error_type |-> "network"])
     ELSE IF Contains(error_msg, "rate limit") \/ Contains(error_msg, "quota")
     THEN create_error_response(429, "Rate Limit Error",
            "Rate limit exceeded during " \o operation
              \o ". Please wait a moment before trying again.",
            details)
     ELSE IF Contains(error_msg, "unauthorized") \/ Contains(error_msg, "api key")
               \/ Contains(error_msg, "authentication")
     THEN create_error_response(401, "Authentication Error",
            "Authentication failed with " \o service_name
              \o ". Please check service configuration.",
            details)
     ELSE IF Contains(error_msg, "forbidden") \/ Contains(error_msg, "permission")
     THEN create_error_response(403, "Authorization Error",
            "Insufficient permissions for " \o operation \o " with "
              \o service_name \o ".",
            details)
     ELSE IF Contains(error_msg, "not found") \/ Contains(error_msg, "404")
     THEN create_error_response(404, "Resource Not Found",
            "The requested resource for " \o operation \o " was not found.",
            details)
     ELSE GenericServiceError(service_name, operation)

(***************************************************************************)
(* validate_file_types (error_handlers.py)                                 *)
(***************************************************************************)

RECURSIVE Join(_, _)
\* sep.join(items)
Join(items, sep) ==
  IF Len(items) = 0 THEN ""
  ELSE IF Len(items) = 1 THEN items[1]
  ELSE items[1] \o sep \o Join(Tail(items), sep)

\* x in list
InSeq(x, list) == \E k \in 1..Len(list) : list[k] = x

\* A call that returned normally / that raised exc
Returned(value) == [kind |-> "returned", value |-> value]
Raised(exc) == [kind |-> "raised", exc |-> exc]

\* Mutant of FileTypesFrom: the last invalid file is reported, not the first
FileTypesFrom_ReportLast(i, files, allowed_types, field_name) ==
  LET bad == {j \in i..(Len(files) - 1) :
                ~(\E k \in 1..Len(allowed_types) :
                    allowed_types[k] = files[j + 1].content_type)}
      last == CHOOSE j \in bad : \A other \in bad : other <= j
  IN IF bad = {} THEN [kind |-> "returned", value |-> None]
     ELSE [kind |-> "raised",
           exc |-> HTTPException(400,
             [error |-> "Invalid File Type",
              message |-> "Invalid file type.",
              field |-> IF Len(files) > 1
                        THEN field_name \o "[" \o ToString(last) \o "]"
                        ELSE field_name,
              received_type |-> files[last + 1].content_type])]

RECURSIVE FileTypesFrom(_, _, _, _)
\* The loop of validate_file_types from index i (0-based, as enumerate)
FileTypesFrom(i, files, allowed_types, field_name) ==
  IF i >= Len(files) THEN Returned(None)
  ELSE IF ~InSeq(files[i + 1].content_type, allowed_types)
  THEN Raised(HTTPException(400,
         [error |-> "Invalid File Type",
          message |-> "Invalid file type. Supported formats: "
                        \o Join(allowed_types, ", "),
          field |-> IF Len(files) > 1
                    THEN field_name \o "[" \o ToString(i) \o "]"
                    ELSE field_name,
          received_type |-> files[i + 1].content_type]))
  ELSE FileTypesFrom(i + 1, files, allowed_types, field_name)

validate_file_types(files, allowed_types, field_name) ==
  FileTypesFrom(0, files, allowed_types, field_name)

(***************************************************************************)
(* image_generation_schema.py                                              *)
(***************************************************************************)

ImageMode == <<"generate", "edit">>

ImageStyle ==
  <<"Photo", "Illustration", "Comic", "Anime", "Abstract", "Fantasy", "PopArt">>

ImageShape == <<"square", "portrait", "landscape">>

TEXT_TO_IMAGE_MODELS ==
  <<"dalle", "flux_1_spro", "gemini", "flux_kontext_dev", "qwen",
    "gemini_nanobanana", "seedream">>

IMAGE_EDIT_MODELS == <<"flux_kontext_edit", "gemini_nanobanana", "seedream">>

MODEL_MAX_IMAGES ==
  ("gemini_nanobanana" :> 4) @@ ("flux_kontext_edit" :> 1) @@ ("seedream" :> 4)

\* dict.get(key, default)
Get(mapping, key, default) ==
  IF key \in DOMAIN mapping THEN mapping[key] ELSE default

(***************************************************************************)
(* app/utils/media_uploader.py                                             *)
(***************************************************************************)

\* config.GCS_BUCKET_NAME and config.BASE_URL (read from the environment)
GCS_BUCKET_NAME == "dream-canvas-media"
BASE_URL == "http://10.0.30.211:5642"

AlnumChars ==
  {"a", "b", "c", "d", "e", "f", "g", "h", "i", "j", "k", "l", "m", "n", "o",
   "p", "q", "r", "s", "t", "u", "v", "w", "x", "y", "z",
   "0", "1", "2", "3", "4", "5", "6", "7", "8", "9"} \cup DOMAIN UpperToLower

RECURSIVE KeepSafe(_)
\* "".join(c for c in s if c.isalnum() or c in (' ', '-', '_'))
KeepSafe(s) ==
  IF Len(s) = 0 THEN ""
  ELSE LET c == SubSeq(s, 1, 1)
       IN (IF c \in AlnumChars \cup {" ", "-", "_"} THEN c ELSE "")
            \o KeepSafe(SubSeq(s, 2, Len(s)))

RECURSIVE RStrip(_)
RStrip(s) ==
  IF Len(s) > 0 /\ SubSeq(s, Len(s), Len(s)) = " "
  THEN RStrip(SubSeq(s, 1, Len(s) - 1))
  ELSE s

RECURSIVE ReplaceBlanks(_)
\* s.replace(' ', '_')
ReplaceBlanks(s) ==
  IF Len(s) = 0 THEN ""
  ELSE LET c == SubSeq(s, 1, 1)
       IN (IF c = " " THEN "_" ELSE c) \o ReplaceBlanks(SubSeq(s, 2, Len(s)))

\* The prompt prefix that goes into a filename
SafePromptLen == 30

\* os.path.join(a, b): an absolute b replaces a; otherwise the two are
\* joined by exactly one "/"
PathJoin(a, b) ==
  IF Len(b) > 0 /\ SubSeq(b, 1, 1) = "/" THEN b
  ELSE IF Len(a) = 0 \/ SubSeq(a, Len(a), Len(a)) = "/" THEN a \o b
  ELSE a \o "/" \o b

\* What an upload did: its result (Returned(url) or Raised(str(e))) and
\* what it stored
Uploaded(result, stored) == [result |-> result, stored |-> stored]

\* upload_bytes with a per-call fallback: a failed blob upload is written
\* to the local folder instead
upload_bytes_FallsBackPerCall(self_bucket, storage, data, filename, user_id, content_type, media_type) ==
  LET folder == IF user_id = None \/ user_id = "" THEN "anonymous" ELSE user_id
      file_path == PathJoin(PathJoin(media_type \o "s", folder), filename)
      destination_blob_name == media_type \o "/" \o user_id \o "/" \o filename
  IN IF self_bucket /\ storage.kind = "ok"
  THEN Uploaded(Returned("https://storage.googleapis.com/" \o GCS_BUCKET_NAME
                           \o "/" \o destination_blob_name),
                <<[store |-> "gcs", path |-> destination_blob_name,
                   data |-> data, content_type |-> content_type]>>)
  ELSE Uploaded(Returned(BASE_URL \o "/" \o media_type \o "s/" \o folder
                           \o "/" \o filename),
                <<[store |-> "local", path |-> file_path,
                   data |-> data, content_type |-> "n/a"]>>)

\* upload_bytes: the blob store when the client was created at startup,
\* the local folder otherwise; a failing write raises and stores nothing.
upload_bytes(self_bucket, storage, data, filename, user_id, content_type, media_type) ==
  IF storage.kind = "fault"
  THEN Uploaded(Raised(storage.msg), <<>>)
  ELSE IF self_bucket
  THEN LET destination_blob_name ==
             media_type \o "/" \o user_id \o "/" \o filename
       IN Uploaded(Returned("https://storage.googleapis.com/"
                              \o GCS_BUCKET_NAME \o "/" \o destination_blob_name),
                   <<[store |-> "gcs", path |-> destination_blob_name,
                      data |-> data, content_type |-> content_type]>>)
  ELSE LET folder == IF user_id = None \/ user_id = "" THEN "anonymous"
                     ELSE user_id
           user_folder == PathJoin(media_type \o "s", folder)
           file_path == PathJoin(user_folder, filename)
       IN Uploaded(Returned(BASE_URL \o "/" \o media_type \o "s/" \o folder
                              \o "/" \o filename),
                   <<[store |-> "local", path |-> file_path,
                      data |-> data, content_type |-> "n/a"]>>)

\* The filename part made from a prompt
SafePrompt(prompt) ==
  ReplaceBlanks(RStrip(KeepSafe(Truncate(prompt, SafePromptLen))))

\* requests.get(url) followed by raise_for_status(), skipped: the body of
\* an error response is stored like any other
FromUrl_NoStatusCheck(self_bucket, download, storage, filename, user_id, content_type, media_type) ==
  upload_bytes(self_bucket, storage, download.content, filename, user_id,
               content_type, media_type)

\* requests.get(url), raise_for_status() (which raises on a 4xx or 5xx
\* status), response.content, upload_bytes: the body shared by the three
\* upload_*_from_url methods
FromUrl(self_bucket, download, storage, filename, user_id, content_type, media_type) ==
  IF download.status \in 400..599
  THEN Uploaded(Raised(download.msg), <<>>)
  ELSE upload_bytes(self_bucket, storage, download.content, filename, user_id,
                    content_type, media_type)

upload_image_from_url(self_bucket, now, download, storage, prompt, user_id, style, shape, model_prefix) ==
  FromUrl(self_bucket, download, storage,
          model_prefix \o "_" \o now \o "_" \o style \o "_" \o shape \o "_"
            \o SafePrompt(prompt) \o ".png",
          user_id, "image/png", "image")

upload_video_from_url(self_bucket, now, download, storage, prompt, user_id, shape, model_prefix) ==
  FromUrl(self_bucket, download, storage,
          model_prefix \o "_" \o now \o "_" \o shape \o "_"
            \o SafePrompt(prompt) \o ".mp4",
          user_id, "video/mp4", "video")

upload_audio_from_url(self_bucket, now, download, storage, prompt, user_id, model_prefix) ==
  FromUrl(self_bucket, download, storage,
          model_prefix \o "_" \o now \o "_" \o SafePrompt(prompt) \o ".mp3",
          user_id, "audio/mpeg", "audio")

(***************************************************************************)
(* image_generation.py: ImageGenerationService                             *)
(***************************************************************************)

\* What a service method did: its result (Returned(url) or Raised(str(e))),
\* the provider calls it submitted and the uploads it made.
Outcome(result, provider_calls, stored) ==
  [result |-> result, calls |-> provider_calls, uploads |-> stored]

\* Upload the image a provider returned at image_url and return its URL
UploadFromUrl(env, call, prompt, user_id, style, shape, prefix) ==
  LET up == upload_image_from_url(env.bucket, env.now, env.download,
                                  env.storage, prompt, user_id, style, shape,
                                  prefix)
  IN Outcome(up.result, <<call>>, up.stored)

\* fal_client.submit with one retry: a call that raised is submitted again
\* and the second answer is taken
FalSubmit_RetryOnce(env, endpoint, arguments, empty_message, prompt, user_id, style, shape, prefix) ==
  LET call == [api |-> "fal_client.submit", endpoint |-> endpoint,
               arguments |-> arguments]
      up == upload_image_from_url(env.bucket, env.now, env.download,
                                  env.storage, prompt, user_id, style, shape,
                                  prefix)
  IN CASE env.provider.kind = "fault" ->
            Outcome(up.result, <<call, call>>, up.stored)
       [] env.provider.kind = "empty" ->
            Outcome(Raised(empty_message), <<call>>, <<>>)
       [] OTHER ->
            Outcome(up.result, <<call>>, up.stored)

\* fal_client.submit(endpoint, arguments).get(), the "images" check and the
\* upload that follow it
FalSubmit(env, endpoint, arguments, empty_message, prompt, user_id, style, shape, prefix) ==
  LET call == [api |-> "fal_client.submit", endpoint |-> endpoint,
               arguments |-> arguments]
  IN CASE env.provider.kind = "fault" ->
            Outcome(Raised(env.provider.msg), <<call>>, <<>>)
       [] env.provider.kind = "empty" ->
            Outcome(Raised(empty_message), <<call>>, <<>>)
       [] OTHER ->
            UploadFromUrl(env, call, prompt, user_id, style, shape, prefix)

\* The message of the exception a failed read() raises
ReadError == "I/O operation on closed file"

\* The files of image_files that carry a filename
Named(image_files) == SelectSeq(image_files, LAMBDA f : f.filename # "")

\* The data URL built from an uploaded file
DataUrl(file) == "data:" \o file.content_type \o ";base64," \o file.filename

\* mimetypes.guess_extension(mime_type) or ".png"
GuessExtension(mime_type) ==
  Get(("image/png" :> ".png") @@ ("image/jpeg" :> ".jpg")
        @@ ("image/webp" :> ".webp"), mime_type, ".png")

_generate_gemini_streaming(env, prompt, user_id, style, shape, image_files) ==
  LET base_prompt == prompt \o ", in " \o Lower(style) \o " style"
      max_images == IF Len(image_files) < 4 THEN Len(image_files) ELSE 4
      \* a part whose read() raises is skipped with a warning
      added == SelectSeq(Named(SubSeq(image_files, 1, max_images)),
                         LAMBDA f : f.readable)
      successfully_added == Len(added)
      styled_prompt ==
        IF successfully_added > 0
        THEN base_prompt \o ". Use the provided " \o ToString(successfully_added)
               \o " reference image"
               \o (IF successfully_added > 1 THEN "s" ELSE "")
               \o " as visual reference."
        ELSE base_prompt
      call == [api |-> "gemini.generate_content_stream",
               endpoint |-> "gemini-2.5-flash-image-preview",
               arguments |-> [text |-> styled_prompt,
                              images |-> [k \in 1..Len(added) |->
                                            added[k].content_type],
                              response_modalities |-> <<"IMAGE", "TEXT">>]]
  IN CASE env.provider.kind = "fault" ->
            Outcome(Raised(env.provider.msg), <<call>>, <<>>)
       [] env.provider.kind = "empty" ->
            Outcome(Raised("No image data received from Gemini NanoBanana"),
                    <<call>>, <<>>)
       [] OTHER ->
            LET filename == "nanobanana_" \o style \o "_" \o shape \o "_"
                              \o env.uuid \o "_0"
                              \o GuessExtension(env.provider.mime_type)
                up == upload_bytes(env.bucket, env.storage,
                                   env.provider.inline_data, filename, user_id,
                                   env.provider.mime_type, "image")
            IN Outcome(up.result, <<call>>, up.stored)

_generate_seedream(env, prompt, user_id, style, shape, image_files) ==
  LET styled_prompt == style \o " style: " \o prompt
      shape_mapping == ("square" :> "square") @@ ("portrait" :> "portrait")
                         @@ ("landscape" :> "landscape")
      image_size == Get(shape_mapping, shape, "square")
      arguments == [prompt |-> styled_prompt, aspect_ratio |-> image_size,
                    num_inference_steps |-> 50, guidance_scale |-> "7.5",
                    num_images |-> 1]
  IN IF Len(image_files) > 0
     THEN IF Len(image_files) > 4
          THEN Outcome(Raised("Maximum 4 images allowed"), <<>>, <<>>)
          ELSE IF \E k \in 1..Len(image_files) : ~image_files[k].readable
          THEN Outcome(Raised(ReadError), <<>>, <<>>)
          ELSE FalSubmit(env, "fal-ai/bytedance/seedream/v4/edit",
                 arguments @@ [image_urls |-> [k \in 1..Len(image_files) |->
                                                DataUrl(image_files[k])]],
                 "No images generated by SeeDream",
                 prompt, user_id, style, shape, "seedream_edit")
     ELSE FalSubmit(env, "fal-ai/bytedance/seedream/v4/text-to-image",
            arguments, "No images generated by SeeDream",
            prompt, user_id, style, shape, "seedream_gen")

_generate_from_text(env, prompt, model, user_id, style, shape) ==
  LET styled_prompt == prompt \o ", in " \o Lower(style) \o " style"
  IN CASE model = "dalle" ->
       LET size_mapping == ("square" :> "1024x1024") @@ ("portrait" :> "1024x1792")
                             @@ ("landscape" :> "1792x1024")
           call == [api |-> "openai.images.generate", endpoint |-> "dall-e-3",
                    arguments |-> [prompt |-> styled_prompt, n |-> 1,
                                   size |-> Get(size_mapping, shape, "1024x1024"),
                                   quality |-> "standard"]]
       IN CASE env.provider.kind = "fault" ->
                 Outcome(Raised(env.provider.msg), <<call>>, <<>>)
            [] env.provider.kind = "empty" ->
                 \* response.data[0] on an empty list
                 Outcome(Raised("list index out of range"), <<call>>, <<>>)
            [] OTHER ->
                 UploadFromUrl(env, call, prompt, user_id, style, shape, "dalle")
     [] model \in {"flux_1_spro", "flux_kontext_dev", "qwen"} ->
       LET shape_mapping == ("square" :> "square_hd") @@ ("portrait" :> "portrait_4_3")
                              @@ ("landscape" :> "landscape_4_3")
           fal_prompt == style \o " style: " \o prompt
           endpoint == CASE model = "flux_1_spro" -> "fal-ai/flux-1/srpo"
                         [] model = "flux_kontext_dev" ->
                              "fal-ai/flux-pro/kontext/max/text-to-image"
                         [] OTHER -> "fal-ai/qwen-image"
           prefix == CASE model = "flux_1_spro" -> "flux1_srpo"
                       [] model = "flux_kontext_dev" -> "flux_kontext"
                       [] OTHER -> "qwen"
           steps == IF model = "qwen" THEN 30 ELSE 28
           guidance == IF model = "qwen" THEN "4.0" ELSE "3.5"
       IN FalSubmit(env, endpoint,
            [prompt |-> fal_prompt,
             image_size |-> Get(shape_mapping, shape, "square_hd"),
             num_inference_steps |-> steps, guidance_scale |-> guidance,
             num_images |-> 1, enable_safety_checker |-> TRUE],
            "No images generated by " \o model,
            prompt, user_id, style, shape, prefix)
     [] model = "gemini" ->
       LET aspect_ratio_mapping == ("square" :> "1:1") @@ ("portrait" :> "9:16")
                                     @@ ("landscape" :> "16:9")
           call == [api |-> "gemini.generate_images",
                    endpoint |-> "models/imagen-4.0-generate-001",
                    arguments |-> [prompt |-> styled_prompt,
                                   number_of_images |-> 1,
                                   output_mime_type |-> "image/jpeg",
                                   aspect_ratio |->
                                     Get(aspect_ratio_mapping, shape, "1:1"),
                                   image_size |-> "1K"]]
       IN CASE env.provider.kind = "fault" ->
                 Outcome(Raised(env.provider.msg), <<call>>, <<>>)
            [] env.provider.kind = "empty" ->
                 Outcome(Raised("No images generated by Gemini"), <<call>>, <<>>)
            [] OTHER ->
                 LET filename == "gemini_" \o style \o "_" \o shape \o "_"
                                   \o env.uuid \o ".jpg"
                     up == upload_bytes(env.bucket, env.storage,
                                        env.provider.inline_data, filename,
                                        user_id, "image/jpeg", "image")
                 IN Outcome(up.result, <<call>>, up.stored)
     [] model = "gemini_nanobanana" ->
       _generate_gemini_streaming(env, prompt, user_id, style, shape, <<>>)
     [] model = "seedream" ->
       _generate_seedream(env, prompt, user_id, style, shape, <<>>)
     [] OTHER ->
       Outcome(Raised("Model " \o model
                        \o " not supported for text-to-image generation"),
               <<>>, <<>>)

_edit_image(env, prompt, model, user_id, style, shape, image_files) ==
  LET max_files == Get(MODEL_MAX_IMAGES, model, 0)
  IN IF Len(image_files) > max_files
     THEN Outcome(Raised("Model " \o model \o " supports maximum "
                           \o ToString(max_files) \o " reference images"),
                  <<>>, <<>>)
     ELSE CASE model = "flux_kontext_edit" /\ ~image_files[1].readable ->
            Outcome(Raised(ReadError), <<>>, <<>>)
          [] model = "flux_kontext_edit" ->
            LET shape_mapping == ("square" :> "square_hd")
                                   @@ ("portrait" :> "portrait_4_3")
                                   @@ ("landscape" :> "landscape_4_3")
            IN FalSubmit(env, "fal-ai/flux-pro/kontext/max",
                 [prompt |-> style \o " style: " \o prompt,
                  image_url |-> DataUrl(image_files[1]),
                  image_size |-> Get(shape_mapping, shape, "square_hd"),
                  num_inference_steps |-> 28, guidance_scale |-> "3.5",
                  num_images |-> 1, enable_safety_checker |-> TRUE],
                 "No images generated by Flux Kontext Edit",
                 prompt, user_id, style, shape, "flux_edit")
          [] model = "gemini_nanobanana" ->
            _generate_gemini_streaming(env, prompt, user_id, style, shape,
                                       image_files)
          [] model = "seedream" ->
            _generate_seedream(env, prompt, user_id, style, shape, image_files)
          [] OTHER ->
            Outcome(Raised("Model " \o model
                             \o " not supported for image editing"),
                    <<>>, <<>>)

\* Mutant of service_generate_image: seedream has no edit branch
service_generate_image_NoSeedreamEdit(env, prompt, model, mode, user_id, style, shape, image_files) ==
  CASE mode = "generate" ->
         _generate_from_text(env, prompt, model, user_id, style, shape)
    [] mode = "edit" /\ model = "seedream" ->
         Outcome(Raised("Model seedream not supported for image editing"),
                 <<>>, <<>>)
    [] mode = "edit" ->
         IF Len(image_files) = 0
         THEN Outcome(Raised("Image files required for edit mode"), <<>>, <<>>)
         ELSE _edit_image(env, prompt, model, user_id, style, shape, image_files)
    [] OTHER -> Outcome(Raised("Invalid mode: " \o mode), <<>>, <<>>)

\* ImageGenerationService.generate_image
service_generate_image(env, prompt, model, mode, user_id, style, shape, image_files) ==
  CASE mode = "generate" ->
         _generate_from_text(env, prompt, model, user_id, style, shape)
    [] mode = "edit" ->
         IF Len(image_files) = 0
         THEN Outcome(Raised("Image files required for edit mode"), <<>>, <<>>)
         ELSE _edit_image(env, prompt, model, user_id, style, shape, image_files)
    [] OTHER -> Outcome(Raised("Invalid mode: " \o mode), <<>>, <<>>)

(***************************************************************************)
(* image_generation_route.py: POST /api/v1/image/generate                  *)
(***************************************************************************)

\* HTTPException(400, {"error": "Validation Error", "message": message})
ValidationError(message) ==
  HTTPException(400, [error |-> "Validation Error", message |-> message])

\* The checks of the edit-mode block, in order
ValidateEditFiles(model, image_files) ==
  LET allowed_types == <<"image/jpeg", "image/jpg", "image/png", "image/webp">>
      types_ok == validate_file_types(image_files, allowed_types, "image_files")
      file_count == Len(Named(image_files))
  IN IF Len(image_files) = 0 \/ Len(Named(image_files)) = 0
     THEN Raised(ValidationError("Image files required for edit mode"))
     ELSE IF types_ok.kind = "raised" THEN types_ok
     ELSE IF file_count > 4
     THEN Raised(ValidationError("Maximum 4 image files allowed. You uploaded "
                   \o ToString(file_count) \o " files."))
     ELSE IF model \in DOMAIN MODEL_MAX_IMAGES
               /\ model = "flux_kontext_edit" /\ file_count # 1
     THEN Raised(ValidationError("Model '" \o model
                   \o "' requires exactly 1 image file. You provided "
                   \o ToString(file_count) \o " files."))
     ELSE IF model \in DOMAIN MODEL_MAX_IMAGES
               /\ model # "flux_kontext_edit"
               /\ file_count > MODEL_MAX_IMAGES[model]
     THEN Raised(ValidationError("Model '" \o model \o "' supports up to "
                   \o ToString(MODEL_MAX_IMAGES[model])
                   \o " image files. You provided "
                   \o ToString(file_count) \o " files."))
     ELSE Returned(None)

\* The checks the handler makes before it calls the service, in order
ValidateImageRequest(req) ==
  IF ~InSeq(req.mode, ImageMode)
  THEN Raised(ValidationError("Mode must be 'generate' or 'edit'"))
  ELSE IF req.mode = "generate" /\ ~InSeq(req.model, TEXT_TO_IMAGE_MODELS)
  THEN Raised(ValidationError("Invalid model for generate mode. Valid models: "
                \o Join(TEXT_TO_IMAGE_MODELS, ", ")))
  ELSE IF req.mode # "generate" /\ ~InSeq(req.model, IMAGE_EDIT_MODELS)
  THEN Raised(ValidationError("Invalid model for edit mode. Valid models: "
                \o Join(IMAGE_EDIT_MODELS, ", ")))
  ELSE IF Len(req.prompt) = 0 \/ Len(Strip(req.prompt)) = 0
  THEN Raised(ValidationError("Prompt is required"))
  ELSE IF ~InSeq(req.style, ImageStyle)
  THEN Raised(ValidationError("Invalid style. Valid styles: "
                \o Join(ImageStyle, ", ")))
  ELSE IF ~InSeq(req.shape, ImageShape)
  THEN Raised(ValidationError("Invalid shape. Valid shapes: "
                \o Join(ImageShape, ", ")))
  ELSE IF req.mode = "edit"
  THEN ValidateEditFiles(req.model, req.image_files)
  ELSE Returned(None)

\* generate_image calling the service before it looks at the checks
generate_image_ServiceFirst(env, req) ==
  LET checked == ValidateImageRequest(req)
      served == service_generate_image(env, req.prompt, req.model, req.mode,
                  req.user_id, req.style, req.shape, req.image_files)
  IN IF checked.kind = "raised"
     THEN Outcome(checked, served.calls, served.uploads)
     ELSE Outcome(served.result, served.calls, served.uploads)

\* The handler generate_image: what it returns or raises, with the provider
\* calls and uploads made on the way
generate_image(env, req) ==
  LET checked == ValidateImageRequest(req)
      served == service_generate_image(env, req.prompt, req.model, req.mode,
                  req.user_id, req.style, req.shape, req.image_files)
  IN IF checked.kind = "raised" THEN Outcome(checked, <<>>, <<>>)
     ELSE IF served.result.kind = "raised"
     THEN Outcome(Raised(handle_service_error(served.result.exc, req.model,
                                              "image generation")),
                  served.calls, served.uploads)
     ELSE Outcome(Returned(
                    [status |-> 200,
                     success_message |->
                       "Image " \o (IF req.mode = "generate" THEN "generated"
                                    ELSE "edited")
                         \o " successfully using " \o req.model,
                     image_url |-> served.result.value,
                     model_used |-> req.model,
                     shape |-> req.shape]),
                  served.calls, served.uploads)

(***************************************************************************)
(* video_generation_route.py: POST /api/v1/video/generate                  *)
(***************************************************************************)

VideoMode == <<"generate", "edit">>
VideoShape == <<"square", "portrait", "landscape">>
TEXT_TO_VIDEO_MODELS == <<"veo-2", "veo-3-fast", "pixverse", "kling">>
IMAGE_TO_VIDEO_MODELS ==
  <<"pixverse-image-to-video", "kling-image-to-video", "wan-2.2">>

\* File(None): no part was sent
NoFile == [filename |-> "", content_type |-> "", readable |-> TRUE]

\* video_generation_service.generate_video (video_generation.py is not part
\* of the sources): the model's provider is called once and its output is
\* republished through the uploader.
service_generate_video(env, prompt, model, mode, user_id, shape, image_file) ==
  LET call == [api |-> "provider.generate_video", endpoint |-> model,
               arguments |-> [prompt |-> prompt, shape |-> shape,
                              image |-> image_file]]
  IN CASE env.provider.kind = "fault" ->
            Outcome(Raised(env.provider.msg), <<call>>, <<>>)
       [] env.provider.kind = "empty" ->
            Outcome(Raised("No video generated by " \o model), <<call>>, <<>>)
       [] OTHER ->
            LET up == upload_video_from_url(env.bucket, env.now, env.download,
                        env.storage, prompt, user_id, shape, model)
            IN Outcome(up.result, <<call>>, up.stored)

\* The checks generate_video makes before it reads the file, in order
ValidateVideoRequest(req) ==
  IF ~InSeq(req.mode, VideoMode)
  THEN Raised(ValidationError("Mode must be 'generate' or 'edit'"))
  ELSE IF req.mode = "generate" /\ ~InSeq(req.model, TEXT_TO_VIDEO_MODELS)
  THEN Raised(ValidationError("Invalid model for generate mode. Valid models: "
                \o Join(TEXT_TO_VIDEO_MODELS, ", ")))
  ELSE IF req.mode # "generate" /\ ~InSeq(req.model, IMAGE_TO_VIDEO_MODELS)
  THEN Raised(ValidationError("Invalid model for edit mode. Valid models: "
                \o Join(IMAGE_TO_VIDEO_MODELS, ", ")))
  ELSE IF ~InSeq(req.shape, VideoShape)
  THEN Raised(ValidationError("Invalid shape. Valid shapes: "
                \o Join(VideoShape, ", ")))
  ELSE IF Len(req.prompt) = 0 \/ Len(Strip(req.prompt)) = 0
  THEN Raised(ValidationError("Prompt is required"))
  ELSE IF req.mode = "edit"
  THEN IF req.image_file.filename = ""
       THEN Raised(ValidationError("Image file required for edit mode"))
       ELSE validate_file_types(<<req.image_file>>,
              <<"image/jpeg", "image/jpg", "image/png", "image/webp">>,
              "image_file")
  ELSE Returned(None)

\* The handler generate_video
generate_video(env, req) ==
  LET checked == ValidateVideoRequest(req)
      served == service_generate_video(env, req.prompt, req.model, req.mode,
                  req.user_id, req.shape,
                  IF req.mode = "edit" THEN req.image_file ELSE NoFile)
  IN IF checked.kind = "raised" THEN Outcome(checked, <<>>, <<>>)
     ELSE IF req.mode = "edit" /\ ~req.image_file.readable
     THEN Outcome(Raised(handle_service_error(ReadError, req.model,
                                              "video generation")),
                  <<>>, <<>>)
     ELSE IF served.result.kind = "raised"
     THEN Outcome(Raised(handle_service_error(served.result.exc, req.model,
                                              "video generation")),
                  served.calls, served.uploads)
     ELSE Outcome(Returned(
                    [status |-> 200,
                     success_message |->
                       "Video " \o (IF req.mode = "generate" THEN "generated"
                                    ELSE "created from image")
                         \o " successfully using " \o req.model,
                     video_url |-> served.result.value]),
                  served.calls, served.uploads)

(***************************************************************************)
(* audio_generation_route.py: POST /api/v1/audio/generate                  *)
(***************************************************************************)

\* audio_generation_service.generate_audio (audio_generation.py is not part
\* of the sources): MiniMax is called once and its output is republished
\* through the uploader.
service_generate_audio(env, verse_prompt, user_id, lyrics_prompt) ==
  LET call == [api |-> "provider.generate_audio", endpoint |-> "minimax",
               arguments |-> [prompt |-> verse_prompt,
                              lyrics_prompt |-> lyrics_prompt]]
  IN CASE env.provider.kind = "fault" ->
            Outcome(Raised(env.provider.msg), <<call>>, <<>>)
       [] env.provider.kind = "empty" ->
            Outcome(Raised("No audio generated by MiniMax"), <<call>>, <<>>)
       [] OTHER ->
            LET up == upload_audio_from_url(env.bucket, env.now, env.download,
                        env.storage, verse_prompt, user_id, "audio")
            IN Outcome(up.result, <<call>>, up.stored)

\* The handler generate_audio
generate_audio(env, req) ==
  LET served == service_generate_audio(env, req.verse_prompt, req.user_id,
                                       req.lyrics_prompt)
  IN IF Len(req.verse_prompt) = 0 \/ Len(Strip(req.verse_prompt)) = 0
     THEN Outcome(Raised(ValidationError("Verse prompt is required")),
                  <<>>, <<>>)
     ELSE IF served.result.kind = "raised"
     THEN Outcome(Raised(handle_service_error(served.result.exc, "minimax",
                                              "audio generation")),
                  served.calls, served.uploads)
     ELSE Outcome(Returned(
                    [status |-> 200,
                     success_message |->
                       "Audio generated successfully using MiniMax",
                     audio_url |-> served.result.value]),
                  served.calls, served.uploads)

(***************************************************************************)
(* ai_avatar_service.py and ai_avatar_route.py: POST /api/v1/avatar/ai-avatar *)
(***************************************************************************)

\* The largest and smallest image side FAL.ai accepts
MaxAvatarDimension == 4000
MinAvatarDimension == 512

Max(a, b) == IF a > b THEN a ELSE b

\* Mutant of AvatarResize: no minimum size is enforced
AvatarResize_NoMinimum(image) ==
  IF ~image.decodable
  THEN [width |-> image.width, height |-> image.height, resized |-> FALSE]
  ELSE LET too_large == image.width > MaxAvatarDimension
                          \/ image.height > MaxAvatarDimension
           target == IF image.width > image.height
                     THEN [width |-> MaxAvatarDimension,
                           height |-> (image.height * MaxAvatarDimension)
                                        \div image.width]
                     ELSE [width |-> (image.width * MaxAvatarDimension)
                                       \div image.height,
                           height |-> MaxAvatarDimension]
       IN IF too_large
          THEN [width |-> target.width, height |-> target.height, resized |-> TRUE]
          ELSE [width |-> image.width, height |-> image.height, resized |-> FALSE]

\* The resize block of generate_video: the image bytes sent on. An image
\* that cannot be opened is sent as it came (the exception is logged).
AvatarResize(image) ==
  IF ~image.decodable
  THEN [width |-> image.width, height |-> image.height, resized |-> FALSE]
  ELSE LET width == image.width
           height == image.height
           too_large == width > MaxAvatarDimension \/ height > MaxAvatarDimension
           w1 == IF ~too_large THEN width
                 ELSE IF width > height THEN MaxAvatarDimension
                 ELSE (width * MaxAvatarDimension) \div height
           h1 == IF ~too_large THEN height
                 ELSE IF width > height
                 THEN (height * MaxAvatarDimension) \div width
                 ELSE MaxAvatarDimension
           too_small == w1 < MinAvatarDimension \/ h1 < MinAvatarDimension
           new_width == IF too_small THEN Max(w1, MinAvatarDimension) ELSE w1
           new_height == IF too_small THEN Max(h1, MinAvatarDimension) ELSE h1
       IN [width |-> new_width, height |-> new_height,
           resized |-> too_large \/ too_small]

\* AIAvatarService.generate_video
avatar_service_generate_video(env, image_file, audio_file, user_id) ==
  LET image_content == AvatarResize(image_file)
      image_call == [api |-> "fal_client.upload", endpoint |-> "image/jpeg",
                     arguments |-> [content |-> image_content]]
      audio_call == [api |-> "fal_client.upload",
                     endpoint |-> audio_file.content_type,
                     arguments |-> [content |-> audio_file.filename]]
      submit == [api |-> "fal_client.submit",
                 endpoint |-> "fal-ai/bytedance/omnihuman",
                 arguments |-> [image_url |-> "https://fal.media/files/image",
                                audio_url |-> "https://fal.media/files/audio"]]
      safe_name == ReplaceBlanks(RStrip(KeepSafe(
                     Truncate(image_file.filename, SafePromptLen))))
  IN IF ~image_file.readable \/ ~audio_file.readable
     THEN Outcome(Raised(ReadError), <<>>, <<>>)
     ELSE IF env.fal_upload.kind = "fault"
     THEN Outcome(Raised(env.fal_upload.msg), <<image_call>>, <<>>)
     ELSE CASE env.provider.kind = "fault" ->
                 Outcome(Raised(env.provider.msg),
                         <<image_call, audio_call, submit>>, <<>>)
            [] env.provider.kind = "empty" ->
                 Outcome(Raised("No video generated by FAL.ai"),
                         <<image_call, audio_call, submit>>, <<>>)
            [] OTHER ->
                 LET up == upload_video_from_url(env.bucket, env.now,
                             env.download, env.storage, safe_name, user_id,
                             "landscape", "ai_avatar")
                 IN Outcome(up.result, <<image_call, audio_call, submit>>,
                            up.stored)

\* HTTPException(400, {"error": "Validation Error", "message": ..., "field": ...})
FieldError(message, field) ==
  HTTPException(400, [error |-> "Validation Error", message |-> message,
                      field |-> field])

\* The handler generate_ai_avatar_video
generate_ai_avatar_video(env, req) ==
  LET allowed_image_types == <<"image/jpeg", "image/jpg", "image/png", "image/webp">>
      allowed_audio_types ==
        <<"audio/mpeg", "audio/mp3", "audio/wav", "audio/ogg", "audio/m4a">>
      served == avatar_service_generate_video(env, req.image_file,
                                              req.audio_file, req.user_id)
  IN IF req.image_file.filename = ""
     THEN Outcome(Raised(FieldError("Image file is required", "image_file")),
                  <<>>, <<>>)
     ELSE IF ~InSeq(req.image_file.content_type, allowed_image_types)
     THEN Outcome(Raised(FieldError("Invalid image file type. Allowed types: "
                                      \o Join(allowed_image_types, ", "),
                                    "image_file")),
                  <<>>, <<>>)
     ELSE IF req.audio_file.filename = ""
     THEN Outcome(Raised(FieldError("Audio file is required", "audio_file")),
                  <<>>, <<>>)
     ELSE IF ~InSeq(req.audio_file.content_type, allowed_audio_types)
     THEN Outcome(Raised(FieldError("Invalid audio file type. Allowed types: "
                                      \o Join(allowed_audio_types, ", "),
                                    "audio_file")),
                  <<>>, <<>>)
     ELSE IF served.result.kind = "raised"
     THEN Outcome(Raised(handle_service_error(served.result.exc,
                           "ByteDance OmniHuman", "generate AI avatar video")),
                  served.calls, served.uploads)
     ELSE Outcome(Returned(
                    [status |-> 200,
                     success_message |->
                       "AI Avatar video generated successfully with ByteDance OmniHuman",
                     video_url |-> served.result.value]),
                  served.calls, served.uploads)

(***************************************************************************)
(* prompt_enhancement.py and prompt_enhancement_route.py:                  *)
(* POST /api/v1/prompt/enhance                                             *)
(***************************************************************************)

\* A str where the code may also put a dict (HTTPException.detail, the
\* "message" of an error body)
Text(s) == [text |-> s]

\* PromptEnhancementService.enhance_prompt
service_enhance_prompt(env, prompt, type) ==
  LET call == [api |-> "openai.chat.completions.create", endpoint |-> "gpt-4o",
               arguments |-> [type |-> Lower(type), prompt |-> prompt,
                              max_tokens |-> 300, temperature |-> "0.7"]]
  IN IF Lower(type) \notin {"image", "video", "audio"}
     THEN Outcome(Raised("Failed to enhance prompt: Invalid type: " \o type
                           \o ". Must be 'image', 'video', or 'audio'"),
                  <<>>, <<>>)
     ELSE CASE env.provider.kind = "fault" ->
                 Outcome(Raised("Failed to enhance prompt: " \o env.provider.msg),
                         <<call>>, <<>>)
            [] env.provider.kind = "empty" ->
                 \* response.choices[0] on an empty list
                 Outcome(Raised("Failed to enhance prompt: list index out of range"),
                         <<call>>, <<>>)
            [] OTHER ->
                 Outcome(Returned(Strip(env.provider.content)), <<call>>, <<>>)

\* The handler enhance_prompt
enhance_prompt(env, req) ==
  LET served == service_enhance_prompt(env, req.prompt, req.type)
  IN IF Len(req.prompt) = 0 \/ Len(Strip(req.prompt)) = 0
     THEN Outcome(Raised(ValidationError("Prompt is required")), <<>>, <<>>)
     ELSE IF req.type \notin {"image", "video", "audio"}
     THEN Outcome(Raised(ValidationError("Type must be image, video, or audio")),
                  <<>>, <<>>)
     ELSE IF served.result.kind = "raised"
     THEN Outcome(Raised(HTTPException(500,
                    Text("Failed to enhance prompt: " \o served.result.exc))),
                  served.calls, <<>>)
     ELSE Outcome(Returned([status |-> 200,
                            success_message |-> "Prompt enhanced successfully",
                            enhanced_prompt |-> served.result.value]),
                  served.calls, <<>>)

(***************************************************************************)
(* delete_user_info.py: DELETE /api/v1/delete-user-data/...                *)
(***************************************************************************)

\* os.getenv("GCS_BUCKET_NAME", "xobestudio-bucket"), with the variable set
BUCKET_NAME == GCS_BUCKET_NAME

StartsWith(s, p) == Len(s) >= Len(p) /\ SubSeq(s, 1, Len(p)) = p

\* s.find(p) + 1: the position of the first p in s, 0 when there is none
Find(s, p) ==
  LET hits == {i \in 1..(Len(s) - Len(p) + 1) : SubSeq(s, i, i + Len(p) - 1) = p}
  IN IF hits = {} THEN 0 ELSE CHOOSE i \in hits : \A j \in hits : i <= j

\* s up to the first of the characters in stops
Before(s, stops) ==
  LET hits == {i \in 1..Len(s) : SubSeq(s, i, i) \in stops}
  IN IF hits = {} THEN s
     ELSE SubSeq(s, 1, (CHOOSE i \in hits : \A j \in hits : i <= j) - 1)

RECURSIVE LStripSlash(_)
\* s.lstrip('/')
LStripSlash(s) ==
  IF Len(s) > 0 /\ SubSeq(s, 1, 1) = "/" THEN LStripSlash(SubSeq(s, 2, Len(s)))
  ELSE s

\* urlparse(url).path: what follows the host, without query and fragment;
\* the whole text when there is no "//" to start a host
UrlPath(url) ==
  LET slashes == Find(url, "//")
      rest == SubSeq(url, slashes + 2, Len(url))
      host == Before(rest, {"/", "?", "#"})
  IN IF slashes = 0 THEN Before(url, {"?", "#"})
     ELSE Before(SubSeq(rest, Len(host) + 1, Len(rest)), {"?", "#"})

\* s.split('/', 1)[1], or the ValueError raised when there is no '/'
AfterFirstSlash(s) ==
  IF Find(s, "/") = 0 THEN Raised("Invalid GCS URL format")
  ELSE Returned(SubSeq(s, Find(s, "/") + 1, Len(s)))

\* parse_gcs_url: the file path of a gs:// or https://storage... URL, or
\* HTTPException(400)
parse_gcs_url(gcs_url) ==
  LET parsed ==
        IF StartsWith(gcs_url, "gs://")
        THEN AfterFirstSlash(SubSeq(gcs_url, 6, Len(gcs_url)))
        ELSE IF Contains(gcs_url, "storage.googleapis.com")
                  \/ Contains(gcs_url, "storage.cloud.google.com")
        THEN AfterFirstSlash(LStripSlash(UrlPath(gcs_url)))
        ELSE Raised("Unsupported GCS URL format")
  IN IF parsed.kind = "raised"
     THEN Raised(HTTPException(400, Text("Invalid GCS URL format: " \o parsed.exc)))
     ELSE parsed

\* get_gcs_client: the client, or HTTPException(500)
get_gcs_client(env) ==
  CASE env.client = "import_error" ->
         Raised(HTTPException(500, Text("Google Cloud Storage service not available")))
    [] env.client = "init_error" ->
         Raised(HTTPException(500,
                  Text("Failed to initialize Google Cloud Storage client")))
    [] OTHER -> Returned(None)

\* str(exc) of an HTTPException
StrHTTPException(exc) == ToString(exc.status_code) \o ": " \o exc.detail.text

DeleteCall(name) ==
  [api |-> "blob.delete", endpoint |-> BUCKET_NAME, arguments |-> [blob |-> name]]

\* The handler delete_gcs_file
delete_gcs_file(env, file_url) ==
  LET client == get_gcs_client(env)
      file_path == parse_gcs_url(file_url)
  IN IF client.kind = "raised" THEN Outcome(client, <<>>, <<>>)
     ELSE IF file_path.kind = "raised" THEN Outcome(file_path, <<>>, <<>>)
     ELSE IF env.storage.kind = "fault"
     THEN \* blob.exists() raises
          Outcome(Raised(HTTPException(500,
                    Text("Failed to delete file: " \o env.storage.msg))),
                  <<>>, <<>>)
     ELSE IF ~InSeq(file_path.value, env.blobs)
     THEN Outcome(Raised(HTTPException(404, Text("File not found"))), <<>>, <<>>)
     ELSE IF file_path.value \in env.undeletable
     THEN \* blob.delete() raises
          Outcome(Raised(HTTPException(500,
                    Text("Failed to delete file: " \o "403 Forbidden: "
                           \o file_path.value))),
                  <<>>, <<>>)
     ELSE Outcome(Returned([message |-> "File deleted successfully"]),
                  <<DeleteCall(file_path.value)>>, <<>>)

\* One pass of the loop of delete_gcs_folder over a folder path: the blobs
\* deleted, the entry added to deleted_folders, and whether an exception
\* was logged and passed over
FolderPass(env, folder_path) ==
  LET blob_list == SelectSeq(env.blobs, LAMBDA b : StartsWith(b, folder_path))
      stuck == {i \in 1..Len(blob_list) : blob_list[i] \in env.undeletable}
      first_stuck == IF stuck = {} THEN Len(blob_list) + 1
                     ELSE CHOOSE i \in stuck : \A j \in stuck : i <= j
  IN IF folder_path \in env.unlistable
     THEN [deleted |-> <<>>, entry |-> <<>>, passed_over |-> TRUE]
     ELSE IF stuck # {}
     THEN [deleted |-> SubSeq(blob_list, 1, first_stuck - 1), entry |-> <<>>,
           passed_over |-> TRUE]
     ELSE [deleted |-> blob_list,
           entry |-> IF Len(blob_list) > 0
                     THEN <<[folder |-> folder_path,
                             files_deleted |-> Len(blob_list)]>>
                     ELSE <<>>,
           passed_over |-> FALSE]

\* The handler delete_gcs_folder
delete_gcs_folder(env, folder_name) ==
  LET client == get_gcs_client(env)
      audio == FolderPass(env, "audio/" \o folder_name \o "/")
      video == FolderPass(env, "video/" \o folder_name \o "/")
      image == FolderPass(env, "image/" \o folder_name \o "/")
      deleted == audio.deleted \o video.deleted \o image.deleted
      deleted_folders == audio.entry \o video.entry \o image.entry
      total_files_deleted == Len(deleted)
  IN IF client.kind = "raised"
     THEN Outcome(Raised(HTTPException(500,
                    Text("Failed to delete folder: "
                           \o StrHTTPException(client.exc)))),
                  <<>>, <<>>)
     ELSE IF Len(deleted_folders) > 0
     THEN Outcome(Returned(
                    [message |-> "Successfully deleted folder '" \o folder_name
                                   \o "' from " \o ToString(Len(deleted_folders))
                                   \o " directories",
                     deleted_folders |-> deleted_folders,
                     total_files_deleted |-> total_files_deleted]),
                  [k \in 1..Len(deleted) |-> DeleteCall(deleted[k])], <<>>)
     ELSE Outcome(Returned(
                    [message |-> "No folders found with name '" \o folder_name
                                   \o "' in any directory",
                     deleted_folders |-> <<>>,
                     total_files_deleted |-> 0]),
                  [k \in 1..Len(deleted) |-> DeleteCall(deleted[k])], <<>>)

(***************************************************************************)
(* main.py: the exception handlers and the response sent                   *)
(***************************************************************************)

\* http_exception_handler: every HTTPException a route raises
http_exception_handler(url, exc) ==
  [status_code |-> exc.status_code,
   content |-> [error |-> "HTTP " \o ToString(exc.status_code) \o " Error",
                message |-> exc.detail,
                status_code |-> exc.status_code,
                path |-> url]]

\* " -> ".join(str(loc) for loc in error["loc"])
FieldName(loc) == Join(loc, " -> ")

\* The message validation_exception_handler makes of one pydantic error
UserFriendlyMessage(error) ==
  LET field_name == FieldName(error.loc)
  IN CASE error.type = "value_error" /\ Contains(error.msg, "Expected UploadFile") ->
            "Invalid file format for field '" \o field_name
              \o "'. Please upload a valid file."
       [] error.type = "missing" ->
            "Required field '" \o field_name \o "' is missing."
       [] error.type = "type_error" ->
            "Invalid data type for field '" \o field_name \o "'. " \o error.msg
       [] OTHER ->
            "Invalid value for field '" \o field_name \o "': " \o error.msg

\* validation_exception_handler: a request FastAPI could not parse
validation_exception_handler(url, errors) ==
  [status_code |-> 422,
   content |-> [error |-> "Validation Error",
                message |-> Text("The request contains invalid data. Please check the following fields:"),
                details |-> [k \in 1..Len(errors) |->
                               [field |-> FieldName(errors[k].loc),
                                message |-> UserFriendlyMessage(errors[k]),
                                error_type |-> errors[k].type]],
                status_code |-> 422]]

\* What goes out for a handler's result: its return value with status 200,
\* or the body http_exception_handler makes of the HTTPException it raised
Respond(url, result) ==
  IF result.kind = "raised" THEN http_exception_handler(url, result.exc)
  ELSE [status_code |-> 200, content |-> result.value]

(***************************************************************************)
(* Inputs                                                                  *)
(***************************************************************************)

\* The most parts one upload carries
MaxFiles == 5

\* Uploaded parts: a PNG, a text file, and a part without a filename;
\* readable tells whether await file.read() returns or raises
FileKinds ==
  {[filename |-> "a.png", content_type |-> "image/png", readable |-> TRUE],
   [filename |-> "notes.txt", content_type |-> "text/plain", readable |-> TRUE],
   [filename |-> "", content_type |-> "image/png", readable |-> TRUE]}

\* A PNG part whose read() raises
BrokenFile ==
  [filename |-> "broken.png", content_type |-> "image/png", readable |-> FALSE]
GoodFile ==
  [filename |-> "a.png", content_type |-> "image/png", readable |-> TRUE]

FileLists ==
  UNION {[1..k -> FileKinds] : k \in 0..MaxFiles}
    \cup {<<BrokenFile>>, <<BrokenFile, GoodFile>>, <<GoodFile, BrokenFile>>}

Modes == {"generate", "edit", "remix"}
Models == {"dalle", "flux_1_spro", "gemini", "flux_kontext_dev", "qwen",
           "flux_kontext_edit", "gemini_nanobanana", "seedream", "sdxl"}
Prompts == {"", " ", "a cat!"}
Styles == {"Photo", "Sketch"}
Shapes == {"square", "portrait", "landscape", "circle"}
UserIds == {None, "u1"}

ImageRequest(mode, model, prompt, style, shape, user_id, image_files) ==
  [kind |-> "image", mode |-> mode, model |-> model, prompt |-> prompt,
   style |-> style, shape |-> shape, user_id |-> user_id,
   image_files |-> image_files]

\* Requests that vary every form field, with no file or one
ParamRequests ==
  {ImageRequest(mode, model, prompt, style, shape, user_id, files) :
     mode \in Modes, model \in Models, prompt \in Prompts, style \in Styles,
     shape \in Shapes, user_id \in UserIds,
     files \in {<<>>, <<GoodFile>>}}

\* Edit requests that vary the uploaded parts
UploadRequests ==
  {ImageRequest("edit", model, "a cat!", "Photo", "square", "u1", files) :
     model \in {"flux_kontext_edit", "gemini_nanobanana", "seedream"},
     files \in FileLists}

ImageRequests == ParamRequests \cup UploadRequests

\* What a provider answers: a result (a URL to download, or inline bytes),
\* an empty result, or a fault
ProviderOutcomes ==
  {[kind |-> "ok", url |-> "https://provider.example/out.png",
    mime_type |-> "image/png", inline_data |-> "IMAGEBYTES"],
   [kind |-> "empty"],
   [kind |-> "fault", msg |-> "429 too many requests"],
   [kind |-> "fault", msg |-> "boom"]}

\* What requests.get(url) answers: the status, the body, and the message
\* raise_for_status() raises with
DownloadOutcomes ==
  {[status |-> 200, content |-> "MEDIABYTES", msg |-> ""],
   [status |-> 304, content |-> "", msg |-> ""],
   [status |-> 404, content |-> "<html>Not Found</html>",
    msg |-> "404 Client Error: Not Found for url: https://provider.example/out.png"],
   [status |-> 503, content |-> "<html>Unavailable</html>",
    msg |-> "503 Server Error: Service Unavailable for url: https://provider.example/out.png"]}

\* What the write to the blob store or to the local folder does
StorageOutcomes ==
  {[kind |-> "ok"],
   [kind |-> "fault", msg |-> "403 Forbidden: storage.objects.create access denied on bucket"]}

DownloadOk == [status |-> 200, content |-> "MEDIABYTES", msg |-> ""]
StorageOk == [kind |-> "ok"]

\* The runs of one request: the provider's answer and, when the provider
\* answered, the download of its result and the write to storage
Scenarios ==
  {[provider |-> p, download |-> DownloadOk, storage |-> StorageOk] :
     p \in ProviderOutcomes}
  \cup {[provider |-> p, download |-> d, storage |-> StorageOk] :
          p \in {q \in ProviderOutcomes : q.kind = "ok"},
          d \in {[status |-> 404, content |-> "<html>Not Found</html>",
                  msg |-> "404 Client Error: Not Found for url: https://provider.example/out.png"]}}
  \cup {[provider |-> p, download |-> DownloadOk, storage |-> st] :
          p \in {q \in ProviderOutcomes : q.kind = "ok"},
          st \in StorageOutcomes}

Timestamps == {"20250101_120000"}
Uuids == {"0f8fad5bd9cb469fa16570867728950e"}

\* Fault messages: fragments of provider errors (and the empty message),
\* alone and in pairs
FaultFragments ==
  {"429 too many requests", "Invalid", "", "boom", "Unauthorized", "openai",
   "Gemini", "bucket", "timeout", "fal-ai", "not found", "quota",
   "permission", "safety"}

FaultMessages ==
  FaultFragments \cup {a \o ": " \o b : a \in FaultFragments, b \in FaultFragments}

\* The service names the routes pass to handle_service_error
ServiceNames ==
  {"dalle", "flux_1_spro", "gemini", "flux_kontext_dev", "qwen",
   "flux_kontext_edit", "gemini_nanobanana", "seedream",
   "veo-2", "veo-3-fast", "pixverse", "kling", "pixverse-image-to-video",
   "kling-image-to-video", "wan-2.2", "minimax", "ByteDance OmniHuman"}

Operations ==
  {"image generation", "video generation", "audio generation",
   "generate AI avatar video"}

\* The URLs of the routes (str(request.url))
ImageUrl == BASE_URL \o "/api/v1/image/generate"
VideoUrl == BASE_URL \o "/api/v1/video/generate"
AudioUrl == BASE_URL \o "/api/v1/audio/generate"
AvatarUrl == BASE_URL \o "/api/v1/avatar/ai-avatar"
PromptUrl == BASE_URL \o "/api/v1/prompt/enhance"
DeleteFileUrl == BASE_URL \o "/api/v1/delete-user-data/delete-file"
DeleteFolderUrl == BASE_URL \o "/api/v1/delete-user-data/delete-folder"

TextFile ==
  [filename |-> "notes.txt", content_type |-> "text/plain", readable |-> TRUE]

VideoRequests ==
  {[kind |-> "video", mode |-> mode, model |-> model, prompt |-> prompt,
    shape |-> shape, image_file |-> image_file, user_id |-> "u1"] :
     mode \in {"generate", "edit", "remix"},
     model \in {"veo-2", "veo-3-fast", "pixverse", "kling",
                "pixverse-image-to-video", "kling-image-to-video", "wan-2.2",
                "sora"},
     prompt \in {"", "a cat!"}, shape \in {"landscape", "circle"},
     image_file \in {NoFile, GoodFile, TextFile, BrokenFile}}

AudioRequests ==
  {[kind |-> "audio", verse_prompt |-> verse_prompt,
    lyrics_prompt |-> lyrics_prompt, user_id |-> user_id] :
     verse_prompt \in {"", " ", "a song"}, lyrics_prompt \in {None, "la la"},
     user_id \in UserIds}

\* Avatar images: their pixel size, and whether PIL can open them
AvatarImage(filename, content_type, readable, decodable, width, height) ==
  [filename |-> filename, content_type |-> content_type,
   readable |-> readable, decodable |-> decodable,
   width |-> width, height |-> height]

AvatarImages ==
  {AvatarImage("face.png", "image/png", TRUE, TRUE, 1024, 768),
   AvatarImage("wide face.png", "image/png", TRUE, TRUE, 8000, 1000),
   AvatarImage("small.png", "image/png", TRUE, TRUE, 100, 300),
   AvatarImage("face.png", "image/png", TRUE, FALSE, 0, 0),
   AvatarImage("face.png", "image/png", FALSE, TRUE, 1024, 768),
   AvatarImage("", "image/png", TRUE, TRUE, 1024, 768),
   AvatarImage("face.gif", "image/gif", TRUE, TRUE, 1024, 768)}

AvatarAudios ==
  {[filename |-> "voice.mp3", content_type |-> "audio/mpeg", readable |-> TRUE],
   [filename |-> "voice.mp3", content_type |-> "audio/mpeg", readable |-> FALSE],
   [filename |-> "", content_type |-> "audio/mpeg", readable |-> TRUE],
   [filename |-> "voice.flac", content_type |-> "audio/flac", readable |-> TRUE]}

AvatarRequests ==
  {[kind |-> "avatar", image_file |-> image_file, audio_file |-> audio_file,
    user_id |-> user_id] :
     image_file \in AvatarImages, audio_file \in AvatarAudios,
     user_id \in UserIds}

\* What fal_client.upload does
FalUploadOutcomes ==
  {[kind |-> "ok"], [kind |-> "fault", msg |-> "fal_client upload failed: timeout"]}

PromptRequests ==
  {[kind |-> "prompt", prompt |-> prompt, type |-> type] :
     prompt \in Prompts, type \in {"image", "video", "audio", "Image", "text"}}

\* What the chat completion answers
PromptOutcomes ==
  {[kind |-> "ok", content |-> " A fluffy cat, studio light "],
   [kind |-> "empty"],
   [kind |-> "fault", msg |-> "Rate limit exceeded: 429 too many requests"],
   [kind |-> "fault", msg |-> "boom"]}

\* The blobs of the bucket, in listing order
BucketContents ==
  <<"audio/u1/song.mp3", "image/u1/a.png", "image/u1/b.png", "video/u2/clip.mp4">>

\* What the delete handlers find: whether the client can be created, the
\* bucket's blobs, whether blob.exists() raises, the blobs whose delete()
\* raises and the prefixes whose listing raises
DeleteEnvs ==
  {[client |-> client, blobs |-> BucketContents, storage |-> storage,
    undeletable |-> undeletable, unlistable |-> unlistable] :
     client \in {"ok", "import_error", "init_error"},
     storage \in StorageOutcomes,
     undeletable \in {{}, {"image/u1/a.png"}, {"image/u1/b.png"}},
     unlistable \in {{}, {"audio/u1/"}, {"image/u1/"}}}

FileUrls ==
  {"gs://dream-canvas-media/image/u1/a.png",
   "gs://dream-canvas-media",
   "https://storage.googleapis.com/dream-canvas-media/image/u1/a.png",
   "https://storage.googleapis.com/dream-canvas-media/image/u1/missing.png",
   "https://storage.googleapis.com/dream-canvas-media/video/u2/clip.mp4?x=1",
   "https://storage.googleapis.com",
   "http://10.0.30.211:5642/images/u1/a.png"}

FolderNames == {"u1", "u2", "nobody"}

\* The errors of a request FastAPI could not parse
ParseErrors ==
  {<<[loc |-> <<"body", "mode">>, msg |-> "Field required", type |-> "missing"]>>,
   <<[loc |-> <<"body", "image_file">>,
      msg |-> "Value error, Expected UploadFile, received: <class 'str'>",
      type |-> "value_error"]>>,
   <<[loc |-> <<"body", "prompt">>, msg |-> "Field required", type |-> "missing"],
     [loc |-> <<"body", "type">>, msg |-> "Input should be a valid string",
      type |-> "string_type"]>>}

(***************************************************************************)
(* The state machine                                                       *)
(***************************************************************************)

NoRequest == [kind |-> "none"]
NoResponse == [kind |-> "none"]

\* A bucket without blobs
EmptyStore == [name \in {} |-> None]

\* MediaUploader.__init__: the blob-store client is created, or it is not
Init ==
  /\ pc = "idle"
  /\ bucket \in BOOLEAN
  /\ request = NoRequest
  /\ response = NoResponse
  /\ calls = <<>>
  /\ uploads = <<>>
  /\ sent = NoResponse
  /\ store = EmptyStore
  /\ inflight = <<>>

\* What a handler finds around it: the provider's answer, the download and
\* the storage write, the clock, a uuid and the uploader's backend
Env(scenario, now, uuid, self_bucket) ==
  [provider |-> scenario.provider, download |-> scenario.download,
   storage |-> scenario.storage, now |-> now, uuid |-> uuid,
   bucket |-> self_bucket]

\* POST /api/v1/image/generate: the handler runs on a request, with the
\* provider's answer, the clock and the uuid it happens to get.
GenerateImage ==
  /\ pc = "idle"
  /\ \E req \in ImageRequests, scenario \in Scenarios,
        now \in Timestamps, uuid \in Uuids :
       LET env == Env(scenario, now, uuid, bucket)
           done == generate_image(env, req)
       IN /\ request' = [env |-> scenario] @@ req
          /\ response' = done.result
          /\ calls' = done.calls
          /\ uploads' = done.uploads
          /\ sent' = Respond(ImageUrl, done.result)
  /\ pc' = "done"
  /\ UNCHANGED bucket
  /\ UNCHANGED <<store, inflight>>

\* A route's except clause: raise handle_service_error(e, service, operation)
HandleServiceError ==
  /\ pc = "idle"
  /\ \E e \in FaultMessages, service_name \in ServiceNames,
        operation \in Operations :
       /\ request' = [kind |-> "fault", e |-> e,
                      service_name |-> service_name, operation |-> operation]
       /\ response' = Raised(handle_service_error(e, service_name, operation))
  /\ pc' = "done"
  /\ UNCHANGED <<bucket, calls, uploads, sent>>
  /\ UNCHANGED <<store, inflight>>

\* The arguments the services pass to the uploader
UploadUserIds == {None, "", "u1", "/srv/www"}
UploadFilenames == {"dalle_20250101_120000_Photo_square_a_cat.png", "clip.mp4"}
UploadContentTypes == {"image/png", "video/mp4"}
MediaTypes == {"image", "video", "audio"}
UploadPrompts == {"a cat!", ""}
ProviderUrl == "https://provider.example/out.png"

\* POST /api/v1/video/generate
GenerateVideo ==
  /\ pc = "idle"
  /\ \E req \in VideoRequests, scenario \in Scenarios,
        now \in Timestamps, uuid \in Uuids :
       LET done == generate_video(Env(scenario, now, uuid, bucket), req)
       IN /\ request' = [env |-> scenario] @@ req
          /\ response' = done.result
          /\ calls' = done.calls
          /\ uploads' = done.uploads
          /\ sent' = Respond(VideoUrl, done.result)
  /\ pc' = "done"
  /\ UNCHANGED bucket
  /\ UNCHANGED <<store, inflight>>

\* POST /api/v1/audio/generate
GenerateAudio ==
  /\ pc = "idle"
  /\ \E req \in AudioRequests, scenario \in Scenarios,
        now \in Timestamps, uuid \in Uuids :
       LET done == generate_audio(Env(scenario, now, uuid, bucket), req)
       IN /\ request' = [env |-> scenario] @@ req
          /\ response' = done.result
          /\ calls' = done.calls
          /\ uploads' = done.uploads
          /\ sent' = Respond(AudioUrl, done.result)
  /\ pc' = "done"
  /\ UNCHANGED bucket
  /\ UNCHANGED <<store, inflight>>

\* POST /api/v1/avatar/ai-avatar
GenerateAvatar ==
  /\ pc = "idle"
  /\ \E req \in AvatarRequests, scenario \in Scenarios,
        fal_upload \in FalUploadOutcomes,
        now \in Timestamps, uuid \in Uuids :
       LET surroundings == [fal_upload |-> fal_upload] @@ scenario
           done == generate_ai_avatar_video(
                     [fal_upload |-> fal_upload]
                       @@ Env(scenario, now, uuid, bucket), req)
       IN /\ request' = [env |-> surroundings] @@ req
          /\ response' = done.result
          /\ calls' = done.calls
          /\ uploads' = done.uploads
          /\ sent' = Respond(AvatarUrl, done.result)
  /\ pc' = "done"
  /\ UNCHANGED bucket
  /\ UNCHANGED <<store, inflight>>

\* POST /api/v1/prompt/enhance
EnhancePrompt ==
  /\ pc = "idle"
  /\ \E req \in PromptRequests, outcome \in PromptOutcomes :
       LET done == enhance_prompt([provider |-> outcome], req)
       IN /\ request' = [env |-> [provider |-> outcome]] @@ req
          /\ response' = done.result
          /\ calls' = done.calls
          /\ uploads' = done.uploads
          /\ sent' = Respond(PromptUrl, done.result)
  /\ pc' = "done"
  /\ UNCHANGED bucket
  /\ UNCHANGED <<store, inflight>>

\* DELETE /api/v1/delete-user-data/delete-file
DeleteFile ==
  /\ pc = "idle"
  /\ \E file_url \in FileUrls, found \in DeleteEnvs :
       LET done == delete_gcs_file(found, file_url)
       IN /\ request' = [kind |-> "delete_file", file_url |-> file_url,
                         env |-> found]
          /\ response' = done.result
          /\ calls' = done.calls
          /\ uploads' = done.uploads
          /\ sent' = Respond(DeleteFileUrl, done.result)
  /\ pc' = "done"
  /\ UNCHANGED bucket
  /\ UNCHANGED <<store, inflight>>

\* DELETE /api/v1/delete-user-data/delete-folder
DeleteFolder ==
  /\ pc = "idle"
  /\ \E folder_name \in FolderNames, found \in DeleteEnvs :
       LET done == delete_gcs_folder(found, folder_name)
       IN /\ request' = [kind |-> "delete_folder", folder_name |-> folder_name,
                         env |-> found]
          /\ response' = done.result
          /\ calls' = done.calls
          /\ uploads' = done.uploads
          /\ sent' = Respond(DeleteFolderUrl, done.result)
  /\ pc' = "done"
  /\ UNCHANGED bucket
  /\ UNCHANGED <<store, inflight>>

\* A request FastAPI cannot parse never reaches its handler:
\* validation_exception_handler answers it
RejectUnparsed ==
  /\ pc = "idle"
  /\ \E url \in {ImageUrl, VideoUrl, PromptUrl}, errors \in ParseErrors :
       /\ request' = [kind |-> "unparsed", url |-> url, errors |-> errors]
       /\ sent' = validation_exception_handler(url, errors)
  /\ response' = NoResponse
  /\ calls' = <<>>
  /\ uploads' = <<>>
  /\ pc' = "done"
  /\ UNCHANGED bucket
  /\ UNCHANGED <<store, inflight>>

\* media_uploader.upload_bytes(data, filename, user_id, content_type, media_type)
UploadBytes ==
  /\ pc = "idle"
  /\ \E storage \in StorageOutcomes, filename \in UploadFilenames,
        user_id \in UploadUserIds, content_type \in UploadContentTypes,
        media_type \in MediaTypes :
       LET up == upload_bytes(bucket, storage, "MEDIABYTES", filename, user_id,
                              content_type, media_type)
       IN /\ request' = [kind |-> "upload_bytes", storage |-> storage,
                         data |-> "MEDIABYTES", filename |-> filename,
                         user_id |-> user_id, content_type |-> content_type,
                         media_type |-> media_type]
          /\ response' = up.result
          /\ uploads' = up.stored
  /\ calls' = <<>>
  /\ pc' = "done"
  /\ UNCHANGED <<bucket, sent>>
  /\ UNCHANGED <<store, inflight>>

\* media_uploader.upload_image_from_url(image_url, prompt, user_id, style, shape, model_prefix)
UploadImageFromUrl ==
  /\ pc = "idle"
  /\ \E download \in DownloadOutcomes, storage \in StorageOutcomes,
        now \in Timestamps, prompt \in UploadPrompts,
        user_id \in UploadUserIds, shape \in {"square", "portrait"} :
       LET up == upload_image_from_url(bucket, now, download, storage, prompt,
                                       user_id, "Photo", shape, "dalle")
       IN /\ request' = [kind |-> "upload_image_from_url", url |-> ProviderUrl,
                         download |-> download, storage |-> storage,
                         prompt |-> prompt, user_id |-> user_id]
          /\ response' = up.result
          /\ uploads' = up.stored
  /\ calls' = <<>>
  /\ pc' = "done"
  /\ UNCHANGED <<bucket, sent>>
  /\ UNCHANGED <<store, inflight>>

\* media_uploader.upload_video_from_url(video_url, prompt, user_id, shape, model_prefix)
UploadVideoFromUrl ==
  /\ pc = "idle"
  /\ \E download \in DownloadOutcomes, storage \in StorageOutcomes,
        now \in Timestamps, prompt \in UploadPrompts,
        user_id \in UploadUserIds, shape \in {"landscape", "portrait"} :
       LET up == upload_video_from_url(bucket, now, download, storage, prompt,
                                       user_id, shape, "ai_avatar")
       IN /\ request' = [kind |-> "upload_video_from_url", url |-> ProviderUrl,
                         download |-> download, storage |-> storage,
                         prompt |-> prompt, user_id |-> user_id]
          /\ response' = up.result
          /\ uploads' = up.stored
  /\ calls' = <<>>
  /\ pc' = "done"
  /\ UNCHANGED <<bucket, sent>>
  /\ UNCHANGED <<store, inflight>>

\* media_uploader.upload_audio_from_url(audio_url, prompt, user_id, model_prefix)
UploadAudioFromUrl ==
  /\ pc = "idle"
  /\ \E download \in DownloadOutcomes, storage \in StorageOutcomes,
        now \in Timestamps, prompt \in UploadPrompts,
        user_id \in UploadUserIds :
       LET up == upload_audio_from_url(bucket, now, download, storage, prompt,
                                       user_id, "audio")
       IN /\ request' = [kind |-> "upload_audio_from_url", url |-> ProviderUrl,
                         download |-> download, storage |-> storage,
                         prompt |-> prompt, user_id |-> user_id]
          /\ response' = up.result
          /\ uploads' = up.stored
  /\ calls' = <<>>
  /\ pc' = "done"
  /\ UNCHANGED <<bucket, sent>>
  /\ UNCHANGED <<store, inflight>>

\* The response goes out and the request's context is dropped
Send ==
  /\ pc = "done"
  /\ pc' = "idle"
  /\ request' = NoRequest
  /\ response' = NoResponse
  /\ calls' = <<>>
  /\ uploads' = <<>>
  /\ sent' = NoResponse
  /\ UNCHANGED bucket
  /\ UNCHANGED <<store, inflight>>

(***************************************************************************)
(* The blob store, and image requests served side by side                 *)
(***************************************************************************)

\* The name a stored upload goes by: "bucket/blob" in the blob store, the
\* file path on the local disk
StoreKey(upload) ==
  IF upload.store = "gcs" THEN GCS_BUCKET_NAME \o "/" \o upload.path
  ELSE upload.path

\* blob.upload_from_string / open(file_path, 'wb').write: the name now
\* holds these bytes, whatever it held before. user_id records the
\* upload_bytes call that wrote them.
Put(blobs, name, data, user_id) ==
  [n \in DOMAIN blobs \cup {name} |->
     IF n = name THEN [data |-> data, user_id |-> user_id] ELSE blobs[n]]

\* The most requests served side by side
MaxConcurrent == 2

\* uuid.uuid4().hex of each request
RequestUuids ==
  <<"0f8fad5bd9cb469fa16570867728950e", "7c9e6679742540de944be07fc1f90ae7",
    "e4eaaaf2d1424b8c9a1b0f3c2d5e6f70">>

\* The clock seconds the requests fall in
ConcurrentTimestamps == {"20250101_120000", "20250101_120001"}

\* The requests: valid generate requests of two users, for a model whose
\* file name is made from the clock and one whose file name holds a uuid
ConcurrentRequests ==
  {ImageRequest("generate", model, "a cat!", "Photo", "square", user_id, <<>>) :
     model \in {"dalle", "gemini"}, user_id \in {"u1", "u2"}}

\* The bytes the provider generates for request r
ProviderBytes(r) == "IMAGEBYTES" \o ToString(r)

\* Request r is answered by the provider with its own bytes, and download
\* and upload succeed
ConcurrentScenario(r) ==
  [provider |-> [kind |-> "ok", url |-> "https://provider.example/out.png",
                 mime_type |-> "image/png", inline_data |-> ProviderBytes(r)],
   download |-> [status |-> 200, content |-> ProviderBytes(r), msg |-> ""],
   storage |-> StorageOk]

\* Request r arrives and its handler runs up to the write to storage: the
\* provider call, the file name (from the clock or a uuid) and the download
BeginImageRequest ==
  /\ pc = "idle"
  /\ \E r \in (1..MaxConcurrent) \ DOMAIN inflight, req \in ConcurrentRequests,
        now \in ConcurrentTimestamps :
       LET env == Env(ConcurrentScenario(r), now, RequestUuids[r], bucket)
           done == generate_image(env, req)
       IN /\ done.result.kind = "returned"
          /\ inflight' = [k \in DOMAIN inflight \cup {r} |->
                            IF k = r
                            THEN [pc |-> "uploading", user_id |-> req.user_id,
                                  model |-> req.model, now |-> now,
                                  upload |-> done.uploads[1],
                                  data |-> ProviderBytes(r),
                                  url |-> done.result.value.image_url]
                            ELSE inflight[k]]
  /\ UNCHANGED <<pc, request, response, calls, uploads, sent, bucket, store>>

\* The write of request r reaches storage and its handler returns the URL
StoreImageUpload ==
  /\ pc = "idle"
  /\ \E r \in DOMAIN inflight :
       /\ inflight[r].pc = "uploading"
       /\ store' = Put(store, StoreKey(inflight[r].upload),
                       inflight[r].upload.data, inflight[r].user_id)
       /\ inflight' = [inflight EXCEPT ![r].pc = "done"]
  /\ UNCHANGED <<pc, request, response, calls, uploads, sent, bucket>>

(***************************************************************************)
(* Uploads and deletions on one bucket                                     *)
(***************************************************************************)

\* The most blobs the bucket holds
MaxBlobs == 3

RECURSIVE Listing(_)
\* list(bucket.list_blobs()): the blob names as a list
Listing(names) ==
  IF names = {} THEN <<>>
  ELSE LET first == CHOOSE n \in names : TRUE
       IN <<first>> \o Listing(names \ {first})

\* The blobs of the configured bucket, by their names in the bucket
BucketBlobs(blobs) ==
  {SubSeq(name, Len(BUCKET_NAME) + 2, Len(name)) :
     name \in {n \in DOMAIN blobs : StartsWith(n, BUCKET_NAME \o "/")}}

\* What the delete handlers find when storage works
WorkingBucket(blobs) ==
  [client |-> "ok", blobs |-> Listing(BucketBlobs(blobs)), storage |-> StorageOk,
   undeletable |-> {}, unlistable |-> {}]

\* The store after the blob.delete() calls of a handler
AfterDeletes(blobs, delete_calls) ==
  LET gone == {delete_calls[k].endpoint \o "/" \o delete_calls[k].arguments.blob :
                 k \in 1..Len(delete_calls)}
  IN [name \in DOMAIN blobs \ gone |-> blobs[name]]

\* The user ids of the uploads
BucketUserIds == {"u1", "u2", "u1/x"}

\* URLs that name a blob path in a bucket: the public URL, the gs:// URL,
\* and the same path in another bucket
UrlsOf(bucket_name, path) ==
  {"https://storage.googleapis.com/" \o bucket_name \o "/" \o path,
   "gs://" \o bucket_name \o "/" \o path}

\* media_uploader.upload_bytes with a blob-store client
BucketUpload ==
  /\ pc = "idle"
  /\ \E user_id \in BucketUserIds, media_type \in MediaTypes :
       LET done == upload_bytes(TRUE, StorageOk, ProviderBytes(1), "out.bin",
                                user_id, "application/octet-stream", media_type)
           name == StoreKey(done.stored[1])
       IN /\ name \in DOMAIN store \/ Cardinality(DOMAIN store) < MaxBlobs
          /\ request' = [kind |-> "bucket_upload", user_id |-> user_id,
                         media_type |-> media_type, before |-> DOMAIN store]
          /\ response' = done.result
          /\ uploads' = done.stored
          /\ store' = Put(store, name, done.stored[1].data, user_id)
  /\ calls' = <<>>
  /\ UNCHANGED <<pc, sent, bucket, inflight>>

\* DELETE /delete-user-data/delete-folder on the bucket as it is
BucketDeleteFolder ==
  /\ pc = "idle"
  /\ \E folder_name \in BucketUserIds :
       LET done == delete_gcs_folder(WorkingBucket(store), folder_name)
       IN /\ request' = [kind |-> "bucket_delete_folder",
                         folder_name |-> folder_name, before |-> store]
          /\ response' = done.result
          /\ calls' = done.calls
          /\ store' = AfterDeletes(store, done.calls)
  /\ uploads' = <<>>
  /\ UNCHANGED <<pc, sent, bucket, inflight>>

\* DELETE /delete-user-data/delete-file with a URL that names a stored
\* blob's path, in the configured bucket or in another one
BucketDeleteFile ==
  /\ pc = "idle"
  /\ \E path \in BucketBlobs(store), bucket_name \in {GCS_BUCKET_NAME, "other-bucket"} :
       \E file_url \in UrlsOf(bucket_name, path) :
         LET done == delete_gcs_file(WorkingBucket(store), file_url)
         IN /\ request' = [kind |-> "bucket_delete_file", file_url |-> file_url,
                           bucket_name |-> bucket_name, path |-> path,
                           before |-> store]
            /\ response' = done.result
            /\ calls' = done.calls
            /\ store' = AfterDeletes(store, done.calls)
  /\ uploads' = <<>>
  /\ UNCHANGED <<pc, sent, bucket, inflight>>

(***************************************************************************)
(* delete_test_media.py: the cleanup script                                *)
(***************************************************************************)

RECURSIVE RemoveAll(_, _)
\* s.replace(p, '')
RemoveAll(s, p) ==
  LET at == Find(s, p)
  IN IF Len(p) = 0 \/ at = 0 THEN s
     ELSE SubSeq(s, 1, at - 1) \o RemoveAll(SubSeq(s, at + Len(p), Len(s)), p)

\* re.match(GCS_BUCKET_PATTERN, url): the bucket and the blob path of
\* https://storage.googleapis.com/<bucket>/<path>, or no match
MatchGcsUrl(url) ==
  LET host == "https://storage.googleapis.com/"
      rest == SubSeq(url, Len(host) + 1, Len(url))
      slash == Find(rest, "/")
  IN IF StartsWith(url, host) /\ slash > 1 /\ slash < Len(rest)
     THEN <<[url |-> url, bucket |-> SubSeq(rest, 1, slash - 1),
             path |-> SubSeq(rest, slash + 1, Len(rest))]>>
     ELSE <<>>

RECURSIVE parse_results_file(_)
\* parse_results_file: the URLs of the lines "URL: https://storage.googleapis.com/..."
parse_results_file(lines) ==
  IF Len(lines) = 0 THEN <<>>
  ELSE (IF StartsWith(Head(lines), "URL: https://storage.googleapis.com/")
        THEN MatchGcsUrl(Strip(RemoveAll(Head(lines), "URL: ")))
        ELSE <<>>)
         \o parse_results_file(Tail(lines))

RECURSIVE delete_files(_, _, _, _)
\* delete_files: the blobs deleted ("bucket/path") and the three counters
delete_files(urls_to_delete, dry_run, blobs, failing) ==
  IF Len(urls_to_delete) = 0
  THEN [deleted |-> <<>>, deleted_count |-> 0, skipped_count |-> 0,
        failed_count |-> 0]
  ELSE LET item == Head(urls_to_delete)
           name == item.bucket \o "/" \o item.path
           deletes == ~dry_run /\ name \notin failing /\ name \in blobs
           rest == delete_files(Tail(urls_to_delete), dry_run,
                                IF deletes THEN blobs \ {name} ELSE blobs,
                                failing)
       IN [deleted |-> (IF deletes THEN <<name>> ELSE <<>>) \o rest.deleted,
           deleted_count |->
             rest.deleted_count + (IF dry_run \/ deletes THEN 1 ELSE 0),
           skipped_count |->
             rest.skipped_count
               + (IF ~dry_run /\ name \notin failing /\ name \notin blobs
                  THEN 1 ELSE 0),
           failed_count |->
             rest.failed_count
               + (IF ~dry_run /\ name \in failing THEN 1 ELSE 0)]

\* cleanup without the confirmation prompt
cleanup_NoPrompt(lines, dry_run, auto_confirm, answer, blobs, failing) ==
  LET urls_to_delete == parse_results_file(lines)
  IN [asked |-> FALSE, cancelled |-> FALSE]
       @@ delete_files(urls_to_delete, dry_run, blobs, failing)

\* MediaCleanup.cleanup: parse the results file, ask unless --yes or
\* --dry-run was given, delete
cleanup(lines, dry_run, auto_confirm, answer, blobs, failing) ==
  LET urls_to_delete == parse_results_file(lines)
      asked == Len(urls_to_delete) > 0 /\ ~auto_confirm /\ ~dry_run
      nothing == delete_files(<<>>, dry_run, blobs, failing)
  IN IF Len(urls_to_delete) = 0
     THEN [asked |-> FALSE, cancelled |-> FALSE] @@ nothing
     ELSE IF asked /\ Lower(answer) # "yes"
     THEN [asked |-> TRUE, cancelled |-> TRUE] @@ nothing
     ELSE [asked |-> asked, cancelled |-> FALSE]
            @@ delete_files(urls_to_delete, dry_run, blobs, failing)

\* Results files, as lines
ResultsFiles ==
  {<<>>,
   <<"Test: image generation", "URL: http://10.0.30.211:5642/images/u1/a.png">>,
   <<"URL: https://storage.googleapis.com/dream-canvas-media/image/u1/a.png">>,
   <<"Test: dalle", "URL: https://storage.googleapis.com/dream-canvas-media/image/u1/a.png ",
     "URL: https://storage.googleapis.com/dream-canvas-media/video/u2/clip.mp4",
     "URL: https://storage.googleapis.com/dream-canvas-media/image/u1/gone.png",
     "  URL: https://storage.googleapis.com/dream-canvas-media/image/u1/b.png",
     "URL: https://storage.googleapis.com/dream-canvas-media">>,
   <<"URL: https://storage.googleapis.com/other-bucket/image/u9/z.png",
     "URL: https://storage.googleapis.com/dream-canvas-media/image/u1/b.png">>}

\* What the user types at the prompt
PromptAnswers == {"yes", "YES", "Yes", "y", "no", "", " yes"}

\* The blobs in storage when the script starts
CleanupBlobs ==
  {"dream-canvas-media/image/u1/a.png", "dream-canvas-media/image/u1/b.png",
   "dream-canvas-media/video/u2/clip.mp4", "other-bucket/image/u9/z.png"}

\* Storage when the script is run: some of the test media are there
InitCleanup ==
  /\ pc = "idle"
  /\ bucket = TRUE
  /\ request = NoRequest
  /\ response = NoResponse
  /\ calls = <<>>
  /\ uploads = <<>>
  /\ sent = NoResponse
  /\ store \in {[name \in blobs |-> [data |-> "MEDIABYTES", user_id |-> "u1"]] :
                  blobs \in {CleanupBlobs, CleanupBlobs \ {"dream-canvas-media/image/u1/a.png"}}}
  /\ inflight = <<>>

\* python delete_test_media.py [--dry-run] [--yes]
RunCleanup ==
  /\ pc = "idle"
  /\ \E lines \in ResultsFiles, dry_run \in BOOLEAN, auto_confirm \in BOOLEAN,
        answer \in PromptAnswers,
        failing \in {{}, {"dream-canvas-media/image/u1/b.png"}} :
       LET done == cleanup(lines, dry_run, auto_confirm, answer, DOMAIN store,
                           failing)
       IN /\ request' = [kind |-> "cleanup", lines |-> lines,
                         dry_run |-> dry_run, auto_confirm |-> auto_confirm,
                         answer |-> answer, failing |-> failing,
                         before |-> DOMAIN store]
          /\ response' = Returned(done)
          /\ store' = [name \in DOMAIN store \ {done.deleted[k] : k \in 1..Len(done.deleted)}
                         |-> store[name]]
  /\ pc' = "done"
  /\ UNCHANGED <<bucket, calls, uploads, sent, inflight>>

(***************************************************************************)
(* Image resizing (media_uploader.py, ai_avatar_service.py)                *)
(***************************************************************************)

\* The default of max_dimension
MaxImageDimension == 4000

\* The target size resize_image_if_needed computes for an image that
\* exceeds max_dimension
ResizeTarget(width, height, max_dimension) ==
  IF width > height
  THEN [width |-> max_dimension, height |-> (height * max_dimension) \div width]
  ELSE [width |-> (width * max_dimension) \div height, height |-> max_dimension]

\* resize_image_if_needed: the size of the image whose bytes it returns,
\* and the target size when one was computed. Image.resize raises for a
\* side of 0, and the except clause then returns the bytes it was given.
resize_image_if_needed(image, max_dimension) ==
  LET original == [width |-> image.width, height |-> image.height]
      target == ResizeTarget(image.width, image.height, max_dimension)
  IN IF ~image.decodable
     THEN [returned |-> original, target |-> original, resized |-> FALSE]
     ELSE IF image.width <= max_dimension /\ image.height <= max_dimension
     THEN [returned |-> original, target |-> original, resized |-> FALSE]
     ELSE IF target.width = 0 \/ target.height = 0
     THEN [returned |-> original, target |-> target, resized |-> FALSE]
     ELSE [returned |-> target, target |-> target, resized |-> TRUE]

\* Widths and heights of uploaded images, around the limits
ImageSides == {1, 2, 511, 512, 513, 1024, 3999, 4000, 4001, 8000, 40000}

ResizeImages ==
  {AvatarImage("face.png", "image/png", TRUE, decodable, width, height) :
     decodable \in BOOLEAN, width \in ImageSides, height \in ImageSides}

\* media_uploader.resize_image_if_needed(image_content)
ResizeImageIfNeeded ==
  /\ pc = "idle"
  /\ \E image \in ResizeImages :
       /\ request' = [kind |-> "resize", image |-> image,
                      max_dimension |-> MaxImageDimension]
       /\ response' = Returned(resize_image_if_needed(image, MaxImageDimension))
  /\ pc' = "done"
  /\ UNCHANGED <<bucket, calls, uploads, sent, store, inflight>>

\* The resize block of AIAvatarService.generate_video on an uploaded image
ResizeAvatarImage ==
  /\ pc = "idle"
  /\ \E image \in ResizeImages :
       /\ request' = [kind |-> "avatar_resize", image |-> image]
       /\ response' = Returned(AvatarResize(image))
  /\ pc' = "done"
  /\ UNCHANGED <<bucket, calls, uploads, sent, store, inflight>>

\* handle_fal_ai_error on a fault whose message is one of the patterns the
\* handler lists
HandleFalError ==
  /\ pc = "idle"
  /\ \E b \in 1..Len(FalBranches), operation \in Operations :
       \E k \in 1..Len(FalBranches[b].patterns) :
         /\ request' = [kind |-> "fal_fault", e |-> FalBranches[b].patterns[k],
                        branch |-> b, operation |-> operation]
         /\ response' = Raised(handle_fal_ai_error(FalBranches[b].patterns[k],
                                                   operation))
  /\ pc' = "done"
  /\ UNCHANGED <<bucket, calls, uploads, sent, store, inflight>>

\* The routes of the application
NextRoutes ==
  GenerateImage \/ GenerateVideo \/ GenerateAudio \/ GenerateAvatar
    \/ EnhancePrompt \/ DeleteFile \/ DeleteFolder \/ RejectUnparsed \/ Send

Next ==
  GenerateImage \/ GenerateVideo \/ GenerateAudio \/ GenerateAvatar
    \/ EnhancePrompt \/ DeleteFile \/ DeleteFolder \/ RejectUnparsed
    \/ HandleServiceError
    \/ UploadBytes \/ UploadImageFromUrl \/ UploadVideoFromUrl
    \/ UploadAudioFromUrl \/ Send
    \/ BeginImageRequest \/ StoreImageUpload
    \/ BucketUpload \/ BucketDeleteFolder \/ BucketDeleteFile
    \/ ResizeImageIfNeeded \/ ResizeAvatarImage \/ RunCleanup
    \/ HandleFalError

\* One route only, for the claims about it
NextImage == GenerateImage \/ Send
NextClassifier == HandleServiceError \/ Send
NextUploader ==
  UploadBytes \/ UploadImageFromUrl \/ UploadVideoFromUrl
    \/ UploadAudioFromUrl \/ Send

NextConcurrent == BeginImageRequest \/ StoreImageUpload
NextResize == ResizeImageIfNeeded \/ ResizeAvatarImage \/ Send
NextCleanup == RunCleanup \/ Send
NextPatterns == HandleFalError \/ Send
NextBucket == BucketUpload \/ BucketDeleteFolder \/ BucketDeleteFile
Spec == Init /\ [][Next]_vars
SpecImage == Init /\ [][NextImage]_vars
SpecClassifier == Init /\ [][NextClassifier]_vars
SpecUploader == Init /\ [][NextUploader]_vars
SpecRoutes == Init /\ [][NextRoutes]_vars
SpecConcurrent == Init /\ [][NextConcurrent]_vars
SpecResize == Init /\ [][NextResize]_vars
SpecCleanup == InitCleanup /\ [][NextCleanup]_vars
SpecPatterns == Init /\ [][NextPatterns]_vars
SpecBucket == Init /\ [][NextBucket]_vars

(***************************************************************************)
(* Properties of the error classifier (checked under SpecClassifier)       *)
(***************************************************************************)

Min(S) == CHOOSE x \in S : \A y \in S : x <= y

\* A fault has been classified: the state holds the fault and what
\* handle_service_error returned for it.
Classified == pc = "done" /\ request.kind = "fault"

\* The branches of handle_fal_ai_error with a pattern inside error_msg
FalMatches(error_msg) ==
  {i \in 1..Len(FalBranches) : AnyIn(FalBranches[i].patterns, error_msg)}

\* The family checks of handle_service_error in declared order: the message
\* patterns of each (the fal check also looks at the service name).
FamilyPatterns ==
  << <<"fal.ai", "fal_client", "fal-ai">>,
     <<"openai", "gpt", "dalle">>,
     <<"gemini", "google", "imagen">>,
     <<"storage", "gcs", "bucket">>,
     <<"connection", "timeout", "network", "unreachable">>,
     <<"rate limit", "quota">>,
     <<"unauthorized", "api key", "authentication">>,
     <<"forbidden", "permission">>,
     <<"not found", "404">> >>

\* What the inline family checks return, in the same order (0: no family)
InlineOutcome ==
  (5 :> <<503, "Network Error">>) @@ (6 :> <<429, "Rate Limit Error">>)
    @@ (7 :> <<401, "Authentication Error">>)
    @@ (8 :> <<403, "Authorization Error">>)
    @@ (9 :> <<404, "Resource Not Found">>) @@ (0 :> <<500, "Service Error">>)

NameSelectsFal(service_name) ==
  \E w \in {"fal", "flux", "kontext"} : Contains(Lower(service_name), w)

FamilyMatches(error_msg, service_name) ==
  {k \in 1..Len(FamilyPatterns) : AnyIn(FamilyPatterns[k], error_msg)}
    \cup (IF NameSelectsFal(service_name) THEN {1} ELSE {})

FirstFamily(error_msg, service_name) ==
  IF FamilyMatches(error_msg, service_name) = {} THEN 0
  ELSE Min(FamilyMatches(error_msg, service_name))

\* <<status, error, error_type>> of the first fal branch that matches
FirstFalOutcome(error_msg) ==
  IF FalMatches(error_msg) = {} THEN <<500, "AI Service Error", "generic">>
  ELSE LET b == FalBranches[Min(FalMatches(error_msg))]
       IN <<b.status, b.error, b.error_type>>

\* C1: the classifier's outcome is that of the first family check that
\* matches, in declared order, and inside handle_fal_ai_error that of the
\* first branch with a pattern in the lower-cased message: a message that
\* matches two families or two branches resolves to the earlier one.
C1_FirstMatchWins ==
  Classified =>
    LET msg == Lower(request.e)
        exc == response.exc
        k == FirstFamily(msg, request.service_name)
    IN CASE k = 1 ->
              <<exc.status_code, exc.detail.error,
                exc.detail.details.error_type>> = FirstFalOutcome(msg)
         [] k = 2 -> exc = handle_openai_error(request.e, request.operation)
         [] k = 3 -> exc = handle_google_ai_error(request.e, request.operation)
         [] k = 4 -> exc = handle_storage_error(request.e, request.operation)
         [] OTHER ->
              /\ <<exc.status_code, exc.detail.error>> = InlineOutcome[k]
              /\ exc.detail.details.service = request.service_name

\* C1 witness: a fault matching two fal branches (rate limit and
\* authentication) and two families was classified by the earlier of each.
C1_Witness ==
  /\ Classified
  /\ request.e = "Unauthorized: 429 too many requests"
  /\ request.service_name = "flux_kontext_dev"
  /\ FalMatches(Lower(request.e)) = {1, 2}
  /\ FamilyMatches(Lower(request.e), request.service_name) = {1, 7}
  /\ response.exc.status_code = 429
  /\ response.exc.detail.details.error_type = "rate_limit"

\* C2: a fault whose message contains "429 too many requests" is
\* classified as a rate-limit error with status 429, whatever service name
\* the route passed.
C2_TooManyRequestsIs429 ==
  (Classified /\ Contains(request.e, "429 too many requests")) =>
    /\ response.exc.status_code = 429
    /\ response.exc.detail.error = "Rate Limit Error"

\* C3: a fault whose message contains both "429" and "invalid" is
\* classified as rate-limit (429, "Rate Limit Error") and never as
\* invalid-request (400, "Invalid Request"), for every service name.
C3_RateLimitBeforeInvalid ==
  (Classified /\ Contains(Lower(request.e), "429")
     /\ Contains(Lower(request.e), "invalid")) =>
    /\ response.exc.status_code = 429
    /\ response.exc.detail.error = "Rate Limit Error"

\* The service labels the provider handlers put in details
HandlerLabels == {"AI Service", "OpenAI", "Google AI", "Storage"}

\* C4: handle_service_error returns, for every fault, service name and
\* operation, an error with an HTTP status, an error type, a message and a
\* details mapping that names the service (the name passed, or the label
\* of the handler that classified it) and the operation.
C4_AlwaysNormalizedError ==
  Classified =>
    /\ response.kind = "raised"
    /\ response.exc.status_code \in 400..599
    /\ DOMAIN response.exc.detail = {"error", "message", "status_code", "details"}
    /\ response.exc.detail.status_code = response.exc.status_code
    /\ Len(response.exc.detail.error) > 0
    /\ Len(response.exc.detail.message) > 0
    /\ {"service", "operation"} \subseteq DOMAIN response.exc.detail.details
    /\ response.exc.detail.details.operation = request.operation
    /\ response.exc.detail.details.service
         \in HandlerLabels \cup {request.service_name}

\* C4 witness: the empty message, which no pattern matches, was classified
\* for a service whose name selects no provider handler.
C4_Witness ==
  /\ Classified
  /\ request.e = ""
  /\ request.service_name = "ByteDance OmniHuman"
  /\ response.exc.status_code = 500
  /\ response.exc.detail.details
       = [service |-> "ByteDance OmniHuman", operation |-> request.operation]

\* Every pattern any handler of the classifier tests
AllPatterns ==
  UNION {{FalBranches[i].patterns[k] : k \in 1..Len(FalBranches[i].patterns)} :
           i \in 1..Len(FalBranches)}
    \cup UNION {{FamilyPatterns[i][k] : k \in 1..Len(FamilyPatterns[i])} :
                  i \in 1..Len(FamilyPatterns)}
    \cup {"api key", "unauthorized", "rate limit", "quota", "content policy",
          "safety", "permission", "access denied", "storage", "full"}

MatchesNoPattern(e) == \A p \in AllPatterns : ~Contains(Lower(e), p)

Served == pc = "done" /\ request.kind = "image"

AllowedImageTypes == {"image/jpeg", "image/jpg", "image/png", "image/webp"}

\* An edit request that passes the mode, model, prompt, style and shape
\* checks
ValidEditRequest ==
  /\ Served
  /\ request.mode = "edit"
  /\ request.model \in {"flux_kontext_edit", "gemini_nanobanana", "seedream"}
  /\ Strip(request.prompt) # ""
  /\ request.style \in {ImageStyle[k] : k \in 1..Len(ImageStyle)}
  /\ request.shape \in {"square", "portrait", "landscape"}

\* Every uploaded part is an image file with a name
AllPartsAreImages ==
  \A i \in 1..Len(request.image_files) :
    /\ request.image_files[i].filename # ""
    /\ request.image_files[i].content_type \in AllowedImageTypes

\* The route refused the request before any provider call
Rejected400 ==
  /\ response.kind = "raised"
  /\ response.exc.status_code = 400
  /\ calls = <<>>
  /\ uploads = <<>>

\* C6: in edit mode flux_kontext_edit is rejected with 400 for every file
\* count other than 1, and gemini_nanobanana and seedream are rejected with
\* 400 above 4 files and accepted for every count from 0 to 4.
C6_ReferenceImageBounds ==
  (ValidEditRequest /\ AllPartsAreImages) =>
    LET n == Len(request.image_files)
    IN IF request.model = "flux_kontext_edit"
       THEN Rejected400 <=> n # 1
       ELSE Rejected400 <=> n > 4

\* C7: an edit request for flux_kontext_edit without image files gets a
\* 400 whose message says that exactly 1 image file is required.
C7_FluxEditNeedsExactlyOne ==
  (ValidEditRequest /\ request.model = "flux_kontext_edit"
     /\ request.image_files = <<>>) =>
    /\ Rejected400
    /\ Contains(response.exc.detail.message, "exactly 1 image file")

\* C8: an edit request without reference images for gemini_nanobanana or
\* seedream is accepted and served through the text-to-image path; for
\* seedream that is the text-to-image endpoint with no image_urls.
C8_ZeroImagesUseTextPath ==
  (ValidEditRequest /\ request.model \in {"gemini_nanobanana", "seedream"}
     /\ request.image_files = <<>>) =>
    /\ ~Rejected400
    /\ Len(calls) = 1
    /\ request.model = "seedream" =>
         /\ calls[1].endpoint = "fal-ai/bytedance/seedream/v4/text-to-image"
         /\ "image_urls" \notin DOMAIN calls[1].arguments

\* The parts (1-based) whose MIME type is not allowed
BadParts ==
  {i \in 1..Len(request.image_files) :
     request.image_files[i].content_type \notin AllowedImageTypes}

\* An edit request that reaches the file checks with a named part
ReachesFileChecks ==
  /\ ValidEditRequest
  /\ \E i \in 1..Len(request.image_files) : request.image_files[i].filename # ""

\* C9 as stated: the validation error lists every violated constraint, so
\* it names every part whose MIME type is invalid.
C9_EveryViolationListed ==
  (ReachesFileChecks /\ BadParts # {}) =>
    /\ Rejected400
    /\ \A i \in BadParts :
         IF Len(request.image_files) > 1
         THEN Contains(response.exc.detail.field, "[" \o ToString(i - 1) \o "]")
         ELSE response.exc.detail.field = "image_files"

\* C9 amended: validation stops at the first violated constraint. The
\* checks run in the order MIME type (parts in upload order), then count;
\* the error names only the lowest-index part with an invalid MIME type,
\* and reports the count only when every MIME type is valid.
C9_FirstViolationOnly ==
  ReachesFileChecks =>
    IF BadParts # {}
    THEN /\ Rejected400
         /\ response.exc.detail.error = "Invalid File Type"
         /\ response.exc.detail.field =
              IF Len(request.image_files) > 1
              THEN "image_files[" \o ToString(Min(BadParts) - 1) \o "]"
              ELSE "image_files"
         /\ response.exc.detail.received_type =
              request.image_files[Min(BadParts)].content_type
    ELSE Len(Named(request.image_files)) > 4 =>
           /\ Rejected400
           /\ response.exc.detail.error = "Validation Error"
           /\ Contains(response.exc.detail.message,
                       "Maximum 4 image files allowed")

\* C9 witness: five named parts, the second and the fourth of an invalid
\* type: the error names the second part only and not the count.
C9_Witness ==
  /\ ReachesFileChecks
  /\ Len(Named(request.image_files)) = 5
  /\ BadParts = {2, 4}
  /\ response.exc.detail.error = "Invalid File Type"
  /\ response.exc.detail.field = "image_files[1]"

\* The provider encodings of a shape that C10 names
DalleSize ==
  ("square" :> "1024x1024") @@ ("portrait" :> "1024x1792")
    @@ ("landscape" :> "1792x1024")
FalImageSize ==
  ("square" :> "square_hd") @@ ("portrait" :> "portrait_4_3")
    @@ ("landscape" :> "landscape_4_3")
ImagenAspectRatio ==
  ("square" :> "1:1") @@ ("portrait" :> "9:16") @@ ("landscape" :> "16:9")

\* The payload keys that carry a shape
ShapeKeys == {"size", "image_size", "aspect_ratio"}

\* C10: for every image model and shape the provider payload carries that
\* provider's encoding of the shape (DALL-E size, fal image_size, Imagen
\* aspect_ratio), and for no model is the shape dropped from the payload.
C10_ShapeEncodedPerProvider ==
  (Served /\ Len(calls) > 0) =>
    LET a == calls[1].arguments
        shape == request.shape
    IN CASE request.model = "dalle" ->
              "size" \in DOMAIN a /\ a.size = DalleSize[shape]
         [] request.model \in {"flux_1_spro", "flux_kontext_dev", "qwen",
                               "flux_kontext_edit"} ->
              "image_size" \in DOMAIN a /\ a.image_size = FalImageSize[shape]
         [] request.model = "gemini" ->
              "aspect_ratio" \in DOMAIN a
                /\ a.aspect_ratio = ImagenAspectRatio[shape]
         [] OTHER -> ShapeKeys \cap DOMAIN a # {}

(***************************************************************************)
(* Claims about the media uploader                                         *)
(***************************************************************************)

FromUrlKinds ==
  {"upload_image_from_url", "upload_video_from_url", "upload_audio_from_url"}
UploaderKinds == FromUrlKinds \cup {"upload_bytes"}

\* The folder upload_bytes files a user's media under
UserFolder(user_id) ==
  IF user_id = None \/ user_id = "" THEN "anonymous" ELSE user_id

\* C11: without a blob-store client, upload_bytes writes the bytes to
\* {media_type}s/{user_id}/{filename} and returns
\* {BASE_URL}/{media_type}s/{user_id}/{filename}: the path of the returned
\* URL names the file just written.
C11_LocalUrlNamesWrittenFile ==
  (request.kind = "upload_bytes" /\ ~bucket /\ response.kind = "returned") =>
    LET path == request.media_type \o "s/" \o UserFolder(request.user_id)
                  \o "/" \o request.filename
    IN /\ Len(uploads) = 1
       /\ uploads[1].store = "local"
       /\ uploads[1].data = request.data
       /\ uploads[1].path = path
       /\ response.value = BASE_URL \o "/" \o uploads[1].path

\* C12: the storage backend is the one chosen at construction, on every
\* call: it never changes, every write goes to it, and a failed blob upload
\* raises and writes nothing to local storage.
C12_BackendChosenOnce ==
  [][/\ bucket' = bucket
     /\ (pc' = "done" /\ request'.kind \in UploaderKinds) =>
          /\ \A i \in 1..Len(uploads') :
               uploads'[i].store = (IF bucket THEN "gcs" ELSE "local")
          /\ (bucket /\ request'.storage.kind = "fault") =>
               /\ response'.kind = "raised"
               /\ uploads' = <<>>]_vars

\* A blob upload failed on an uploader that has a blob-store client
C12_Witness ==
  /\ request.kind = "upload_bytes"
  /\ bucket
  /\ request.storage.kind = "fault"
  /\ response.kind = "raised"

\* C13 as stated: a download answered with any non-2xx status makes the
\* upload_*_from_url call fail without storing anything.
C13_Non2xxDownloadStoresNothing ==
  (request.kind \in FromUrlKinds /\ request.download.status \notin 200..299) =>
    /\ response.kind = "raised"
    /\ uploads = <<>>

\* C13 amended: a download answered with a 4xx or 5xx status makes the call
\* fail with the download's error and nothing is stored; whatever is stored
\* is the whole downloaded body.
C13_FailedDownloadStoresNothing ==
  request.kind \in FromUrlKinds =>
    /\ request.download.status \in 400..599 =>
         /\ response.kind = "raised"
         /\ response.exc = request.download.msg
         /\ uploads = <<>>
    /\ \A i \in 1..Len(uploads) : uploads[i].data = request.download.content

\* A download answered 404
C13_Witness ==
  /\ request.kind \in FromUrlKinds
  /\ request.download.status = 404
  /\ response.kind = "raised"
  /\ uploads = <<>>

(***************************************************************************)
(* Claims about the routes                                                 *)
(***************************************************************************)

\* The form fields of an image or video request fail a check the handler
\* makes before it calls the service
InvalidForm ==
  \/ request.mode \notin {"generate", "edit"}
  \/ Len(Strip(request.prompt)) = 0
  \/ /\ request.kind = "image"
     /\ \/ request.mode = "generate" /\ ~InSeq(request.model, TEXT_TO_IMAGE_MODELS)
        \/ request.mode = "edit" /\ ~InSeq(request.model, IMAGE_EDIT_MODELS)
        \/ ~InSeq(request.style, ImageStyle)
        \/ ~InSeq(request.shape, ImageShape)
        \/ request.mode = "edit" /\ Named(request.image_files) = <<>>
  \/ /\ request.kind = "video"
     /\ \/ request.mode = "generate" /\ ~InSeq(request.model, TEXT_TO_VIDEO_MODELS)
        \/ request.mode = "edit" /\ ~InSeq(request.model, IMAGE_TO_VIDEO_MODELS)
        \/ ~InSeq(request.shape, VideoShape)
        \/ request.mode = "edit" /\ request.image_file.filename = ""

\* The URL a 200 response of the image or video route carries
MediaUrl ==
  IF request.kind = "image" THEN response.value.image_url
  ELSE response.value.video_url

GenerationCalls == SelectSeq(calls, LAMBDA c : c.api # "fal_client.upload")

\* C15: nothing is retried: a request submits at most one generation call,
\* and when that call raises or returns nothing the request fails at once,
\* with no second call and no upload to storage.
C15_NoRetry ==
  request.kind \in {"image", "avatar"} =>
    /\ Len(GenerationCalls) <= 1
    /\ (Len(GenerationCalls) = 1
          /\ request.env.provider.kind \in {"fault", "empty"}) =>
         /\ response.kind = "raised"
         /\ uploads = <<>>

\* A fal model's generation call raised
C15_Witness ==
  /\ request.kind = "image"
  /\ request.model = "flux_1_spro"
  /\ request.env.provider.kind = "fault"
  /\ Len(GenerationCalls) = 1
  /\ response.kind = "raised"
  /\ uploads = <<>>

\* The provider or storage fault a route's handler caught, as its
\* except clause sees it (str(e)); "" when none was raised
RouteFault ==
  CASE request.kind = "avatar" /\ calls # <<>>
         /\ request.env.fal_upload.kind = "fault" ->
           request.env.fal_upload.msg
    [] request.kind \in {"image", "video", "audio", "avatar"}
         /\ calls # <<>> /\ request.env.provider.kind = "fault" ->
           request.env.provider.msg
    [] request.kind \in {"image", "video", "audio", "avatar"}
         /\ calls # <<>> /\ request.env.provider.kind = "ok"
         /\ request.env.download.status \in 400..599
         /\ (request.kind = "image" =>
               request.model \notin {"gemini", "gemini_nanobanana"}) ->
           request.env.download.msg
    [] request.kind \in {"image", "video", "audio", "avatar"}
         /\ calls # <<>> /\ request.env.provider.kind = "ok"
         /\ request.env.storage.kind = "fault" ->
           request.env.storage.msg
    [] request.kind = "prompt" /\ calls # <<>>
         /\ request.env.provider.kind = "fault" ->
           "Failed to enhance prompt: " \o request.env.provider.msg
    [] request.kind = "delete_file" /\ request.env.client = "ok"
         /\ parse_gcs_url(request.file_url).kind = "returned"
         /\ request.env.storage.kind = "fault" ->
           request.env.storage.msg
    [] OTHER -> ""

\* The service names and operations handle_service_error is called with
ClassifierServices == ServiceNames \cup {"openai", "storage"}
ClassifierOperations ==
  Operations \cup {"prompt enhancement", "delete file", "delete folder"}

\* C16: on every route a provider or storage fault is caught at the route
\* boundary, passed through the error classifier and returned with the
\* classifier's status and error type.
C16_FaultsClassifiedOnEveryRoute ==
  RouteFault # "" =>
    /\ response.kind = "raised"
    /\ "error" \in DOMAIN response.exc.detail
    /\ \E service_name \in ClassifierServices, operation \in ClassifierOperations :
         LET classified == handle_service_error(RouteFault, service_name, operation)
         IN /\ response.exc.status_code = classified.status_code
            /\ response.exc.detail.error = classified.detail.error

\* One of the three folder passes of delete_gcs_folder met an exception
\* (listing the prefix or deleting a blob raised)
FolderFaultPassedOver ==
  /\ request.kind = "delete_folder"
  /\ request.env.client = "ok"
  /\ \E media \in {"audio", "video", "image"} :
       FolderPass(request.env, media \o "/" \o request.folder_name \o "/").passed_over

\* Reading a reference image of a gemini_nanobanana edit request raised
ReferenceReadFailed ==
  /\ request.kind = "image"
  /\ request.model = "gemini_nanobanana"
  /\ calls # <<>>
  /\ \E i \in 1..Len(request.image_files) : ~request.image_files[i].readable

\* C17: no fault is silently swallowed except an image-resize failure:
\* every other exception raised while serving a request (a provider or
\* storage fault, a failed read of a reference image, a failed listing or
\* delete of a folder) makes the request end in an error response.
C17_OnlyResizeFailureSwallowed ==
  (RouteFault # "" \/ FolderFaultPassedOver \/ ReferenceReadFailed) =>
    /\ response.kind = "raised"
    /\ sent.status_code >= 400

\* C18: every error response body has the shape {error, message,
\* status_code, details?}: error is the error type, message is a text
\* string, status_code equals the HTTP status of the response, and details
\* is the only optional key.
C18_ErrorBodyShape ==
  ("status_code" \in DOMAIN sent /\ sent.status_code >= 400) =>
    /\ {"error", "message", "status_code"} \subseteq DOMAIN sent.content
    /\ DOMAIN sent.content \subseteq {"error", "message", "status_code", "details"}
    /\ sent.content.status_code = sent.status_code
    /\ DOMAIN sent.content.message = {"text"}
    /\ (response.kind = "raised" /\ "error" \in DOMAIN response.exc.detail) =>
         sent.content.error = response.exc.detail.error

\* The HTTP statuses the error taxonomy assigns to an error type; an error
\* type outside the taxonomy's classes is left open
TaxonomyStatus(error_type) ==
  CASE error_type = "Authentication Error" -> {401}
    [] error_type = "Authorization Error" -> {403}
    [] error_type = "Rate Limit Error" -> {429}
    [] error_type \in {"Resource Not Found", "Model Not Found"} -> {404}
    [] error_type = "Content Policy Violation" -> {422}
    [] error_type \in {"Generation Timeout", "Request Timeout"} -> {504}
    [] error_type \in {"Service Unavailable", "Downstream Service Unavailable",
                       "Network Error"} -> {503}
    [] error_type = "Payment Required" -> {402}
    [] error_type \in {"Storage Error", "Storage Permission Error",
                       "Storage Full"} -> {500, 403, 507}
    [] error_type \in {"Service Error", "AI Service Error",
                       "Generation Failed"} -> {500}
    [] OTHER -> 400..599

\* C19: every classification result carries the HTTP status the taxonomy
\* assigns to its error type, whichever provider handler produced it
\* (content policy violation 422, rate limit 429, storage 500/403/507, ...).
C19_StatusFollowsTaxonomy ==
  Classified =>
    response.exc.status_code \in TaxonomyStatus(response.exc.detail.error)

\* C20: the (status, error type) pair of handle_service_error depends only
\* on the fault's message and the service name: the same fault and service
\* classified under any other operation give the pair that was returned.
C20_PairIndependentOfOperation ==
  Classified =>
    \A operation \in Operations :
      LET other == handle_service_error(request.e, request.service_name, operation)
      IN /\ other.status_code = response.exc.status_code
         /\ other.detail.error = response.exc.detail.error

\* A fal fault of a video request was classified by its message
C20_Witness ==
  /\ Classified
  /\ request.operation = "video generation"
  /\ request.service_name = "kling"
  /\ request.e = "fal-ai: 429 too many requests"
  /\ response.exc.status_code = 429
  /\ response.exc.detail.error = "Rate Limit Error"

(***************************************************************************)
(* Image requests served side by side (checked under SpecConcurrent)       *)
(***************************************************************************)

\* C21: requests served side by side cannot affect each other's result:
\* once requests have succeeded, the URL returned to each names a stored
\* object that holds the bytes that request stored (none was overwritten
\* by another request).
C21_ConcurrentRequestsIsolated ==
  \A r \in DOMAIN inflight :
    inflight[r].pc = "done" =>
      /\ Contains(inflight[r].url, inflight[r].upload.path)
      /\ StoreKey(inflight[r].upload) \in DOMAIN store
      /\ store[StoreKey(inflight[r].upload)].data = inflight[r].data

(***************************************************************************)
(* Image resizing (checked under SpecResize)                               *)
(***************************************************************************)

\* C22: for every avatar image of size (w, h) with w, h >= 1 the size
\* AIAvatarService computes for the image it sends lies within 512..4000 on
\* both sides, and an image already within that range is sent unchanged.
C22_AvatarSizeWithinLimits ==
  (request.kind = "avatar_resize" /\ request.image.decodable) =>
    /\ response.value.width \in MinAvatarDimension..MaxAvatarDimension
    /\ response.value.height \in MinAvatarDimension..MaxAvatarDimension
    /\ (/\ request.image.width \in MinAvatarDimension..MaxAvatarDimension
        /\ request.image.height \in MinAvatarDimension..MaxAvatarDimension) =>
         /\ ~response.value.resized
         /\ response.value.width = request.image.width
         /\ response.value.height = request.image.height

\* A very wide image was scaled down and its short side raised to 512
C22_Witness ==
  /\ request.kind = "avatar_resize"
  /\ request.image.decodable
  /\ request.image.width = 8000
  /\ request.image.height = 511
  /\ response.value.resized
  /\ response.value.width = 4000
  /\ response.value.height = 512

(***************************************************************************)
(* The cleanup script (checked under SpecCleanup)                          *)
(***************************************************************************)

\* C23 as stated: the cleanup script deletes a blob only when dry-run is
\* off and the deletion was confirmed, by --yes or by the answer "yes" at
\* the prompt; after any other answer nothing is deleted.
C23_DeletesOnlyAfterYes ==
  (request.kind = "cleanup" /\ Len(response.value.deleted) > 0) =>
    /\ ~request.dry_run
    /\ request.auto_confirm \/ request.answer = "yes"

\* C23 amended: the cleanup script deletes a blob only when dry-run is off
\* and the deletion was confirmed, by --yes or by an answer that is "yes"
\* in any letter case; in dry-run mode and after any other answer no blob
\* is deleted and storage is as it was.
C23_DeletesOnlyAfterYesInAnyCase ==
  request.kind = "cleanup" =>
    \/ /\ ~request.dry_run
       /\ request.auto_confirm \/ Lower(request.answer) = "yes"
    \/ /\ Len(response.value.deleted) = 0
       /\ DOMAIN store = request.before

\* The prompt was answered "YES" and a blob was deleted
C23_Witness ==
  /\ request.kind = "cleanup"
  /\ ~request.dry_run
  /\ ~request.auto_confirm
  /\ request.answer = "YES"
  /\ response.value.asked
  /\ Len(response.value.deleted) > 0

(***************************************************************************)
(* Capabilities and file counts of the image route (checked under          *)
(* SpecImage)                                                              *)
(***************************************************************************)

\* The service gets past the checks and reads that come before its
\* dispatch: the list is within the model's maximum and every part can be
\* read
ReachesDispatch ==
  /\ request.mode = "edit" =>
       Len(request.image_files) <= Get(MODEL_MAX_IMAGES, request.model, 0)
  /\ \A i \in 1..Len(request.image_files) : request.image_files[i].readable

\* C24: capability lookup is total over what validation admits: a request
\* the image route accepts reaches a dispatch branch of the service for its
\* model and mode (the branch's provider call is made, not the service's
\* "not supported" error), and a model outside the list of its mode is
\* rejected with 400 before dispatch.
C24_AcceptedModelsAreDispatched ==
  request.kind = "image" =>
    /\ (ValidateImageRequest(request).kind = "returned" /\ ReachesDispatch) =>
         Len(calls) >= 1
    /\ (\/ request.mode = "generate" /\ ~InSeq(request.model, TEXT_TO_IMAGE_MODELS)
        \/ request.mode = "edit" /\ ~InSeq(request.model, IMAGE_EDIT_MODELS)) =>
         /\ response.kind = "raised"
         /\ response.exc.status_code = 400
         /\ calls = <<>>
         /\ uploads = <<>>

\* An accepted seedream edit request reached its provider
C24_Witness ==
  /\ request.kind = "image"
  /\ request.mode = "edit"
  /\ request.model = "seedream"
  /\ ValidateImageRequest(request).kind = "returned"
  /\ Len(calls) = 1
  /\ response.kind = "returned"

\* C26: in edit mode the file count the route validates is the file count
\* the service enforces: when the route's checks pass, the service's check
\* len(image_files) <= MODEL_MAX_IMAGES[model] passes too, for every list
\* of uploaded parts, parts with an empty filename included.
C26_RouteCountIsServiceCount ==
  (/\ request.kind = "image"
   /\ request.mode = "edit"
   /\ ValidateImageRequest(request).kind = "returned") =>
    Len(request.image_files) <= Get(MODEL_MAX_IMAGES, request.model, 0)

(***************************************************************************)
(* The patterns of handle_fal_ai_error (checked under SpecPatterns)        *)
(***************************************************************************)

\* C25: no pattern of handle_fal_ai_error is shadowed by an earlier branch:
\* a fault whose message is exactly a pattern listed in a branch is
\* classified by that branch, with its status, error type and error_type
\* detail.
C25_NoPatternShadowed ==
  request.kind = "fal_fault" =>
    /\ response.exc.status_code = FalBranches[request.branch].status
    /\ response.exc.detail.error = FalBranches[request.branch].error
    /\ response.exc.detail.details.error_type
         = FalBranches[request.branch].error_type

(***************************************************************************)
(* Uploads and deletions on one bucket (checked under SpecBucket)          *)
(***************************************************************************)

\* C27: delete-folder deletes exactly the blobs the uploader stored for
\* that user: after a delete-folder call for u that met no storage error,
\* no blob uploaded for u is left and no blob uploaded for another user id
\* has been removed.
C27_DeleteFolderDeletesExactlyTheUsersBlobs ==
  request.kind = "bucket_delete_folder" =>
    \A name \in DOMAIN request.before :
      IF request.before[name].user_id = request.folder_name
      THEN name \notin DOMAIN store
      ELSE name \in DOMAIN store

RECURSIVE FilesDeletedIn(_)
\* The sum of files_deleted over the entries of deleted_folders
FilesDeletedIn(entries) ==
  IF entries = <<>> THEN 0
  ELSE Head(entries).files_deleted + FilesDeletedIn(Tail(entries))

\* C28: the delete-folder response accounts for what was deleted:
\* total_files_deleted is the sum of files_deleted over deleted_folders,
\* and every folder a blob was deleted from appears in deleted_folders.
C28_DeleteFolderResponseAccounts ==
  (request.kind = "delete_folder" /\ response.kind = "returned") =>
    LET body == response.value
    IN /\ body.total_files_deleted = FilesDeletedIn(body.deleted_folders)
       /\ \A k \in 1..Len(calls) :
            \E j \in 1..Len(body.deleted_folders) :
              StartsWith(calls[k].arguments.blob, body.deleted_folders[j].folder)

\* C29: delete-file deletes only the object the URL names: a URL whose
\* bucket differs from the configured bucket deletes nothing in the
\* configured bucket, and the URL an upload returned deletes exactly the
\* blob that upload stored.
C29_DeleteFileDeletesTheNamedObject ==
  request.kind = "bucket_delete_file" =>
    /\ request.bucket_name # BUCKET_NAME =>
         DOMAIN store = DOMAIN request.before
    /\ request.bucket_name = BUCKET_NAME =>
         DOMAIN request.before \ DOMAIN store
           = {BUCKET_NAME \o "/" \o request.path}

\* C30: for every image whose width or height exceeds max_dimension the
\* target size of resize_image_if_needed has its longer side equal to
\* max_dimension and both sides within 1..max_dimension, and the image it
\* returns is not larger than max_dimension on either side.
C30_ResizeTargetWithinLimit ==
  (/\ request.kind = "resize"
   /\ request.image.decodable
   /\ (request.image.width > request.max_dimension
         \/ request.image.height > request.max_dimension)) =>
    LET target == response.value.target
        returned == response.value.returned
    IN /\ Max(target.width, target.height) = request.max_dimension
       /\ target.width \in 1..request.max_dimension
       /\ target.height \in 1..request.max_dimension
       /\ returned.width <= request.max_dimension
       /\ returned.height <= request.max_dimension

====
